---------------------------- MODULE Spec2Model ----------------------------
(***************************************************************************)
(* RGB-LED-Routines: the routine engine (RoutinesRGB) and the framed       *)
(* command protocol of the Corluma sample sketch, as state machines.       *)
(*                                                                         *)
(* Byte strings (char arrays) are sequences of character codes; a C string *)
(* is the prefix of a char array before its first 0.                       *)
(***************************************************************************)
EXTENDS Integers, Sequences, FiniteSets, TLC

(***************************************************************************)
(* Characters and C string helpers                                         *)
(***************************************************************************)
value_delimiter   == 44   \* ","
message_delimiter == 38   \* "&"
crc_delimiter     == 35   \* "#"
packet_delimiter  == 59   \* ";"
MinusSign         == 45   \* "-"

isdigit(c) == c >= 48 /\ c <= 57

isspace(c) == c = 32 \/ (c >= 9 /\ c <= 13)
Abs(x) == IF x < 0 THEN -x ELSE x

Range(f) == { f[i] : i \in DOMAIN f }

Min(a, b) == IF a < b THEN a ELSE b
Max(a, b) == IF a > b THEN a ELSE b

\* constrain(x, lo, hi) of Arduino.h
constrain(x, lo, hi) == IF x < lo THEN lo ELSE IF x > hi THEN hi ELSE x

\* Body(value), the value being computed once
With(value, Body(_)) == CHOOSE result \in { Body(v) : v \in {value} } : TRUE

\* the index of the first element of s, at or after i, whose membership in cs
\* is `member`; Len(s) + 1 when there is none
FirstFrom(s, i, cs, member) ==
    LET found == { j \in i..Len(s) : (s[j] \in cs) = member }
    IN  IF found = {} THEN Len(s) + 1
        ELSE CHOOSE j \in found : \A k \in found : j <= k

\* the C string held in a char array: the bytes before the first NUL
CStr(s) == SubSeq(s, 1, FirstFrom(s, 1, {0}, TRUE) - 1)

\* strtok(s, delim) and the strtok(0, delim) calls that follow it, on the C
\* string s: the maximal runs of non-delimiter characters, in order
RECURSIVE strtok(_, _)
strtok(s, delim) ==
    LET b == FirstFrom(s, 1, {delim}, FALSE)
        e == FirstFrom(s, b, {delim}, TRUE)
    IN  IF b > Len(s) THEN << >>
        ELSE << SubSeq(s, b, e - 1) >> \o strtok(SubSeq(s, e + 1, Len(s)), delim)

\* the value of the leading run of digits of s in the given base, the digits
\* 8 and 9 ending an octal run
RECURSIVE DigitsValue(_, _, _)
DigitsValue(s, base, acc) ==
    IF s = << >> \/ ~isdigit(Head(s)) \/ Head(s) - 48 >= base THEN acc
    ELSE DigitsValue(Tail(s), base, acc * base + (Head(s) - 48))

\* atoi on a 16-bit int (AVR): optional sign, leading decimal digits, the
\* result wrapped to 16 bits
atoi(s) ==
    LET neg  == s /= << >> /\ Head(s) = MinusSign
        body == IF neg THEN Tail(s) ELSE s
        \* the magnitude is reduced as the digits are summed
        mag  == DigitsValue(body, 10, 0) % 65536
        v    == IF neg THEN (65536 - mag) % 65536 ELSE mag
    IN  IF v >= 32768 THEN v - 65536 ELSE v

\* itoa(n, buf, 10): the decimal digits of n
RECURSIVE utoa(_)
utoa(n) == IF n < 10 THEN << 48 + n >> ELSE utoa(n \div 10) \o << 48 + (n % 10) >>

itoa(n) == IF n < 0 THEN << MinusSign >> \o utoa(-n) ELSE utoa(n)

\* strcat of a list of C strings
RECURSIVE Concat(_)
Concat(ss) == IF ss = << >> THEN << >> ELSE Head(ss) \o Concat(Tail(ss))

\* the values of a message, joined by the value delimiter
RECURSIVE JoinValues(_)
JoinValues(ints) ==
    IF ints = << >> THEN << >>
    ELSE IF Len(ints) = 1 THEN itoa(ints[1])
    ELSE itoa(Head(ints)) \o << value_delimiter >> \o JoinValues(Tail(ints))

(***************************************************************************)
(* 32-bit unsigned long values.  TLC's integers are 32-bit signed, so an   *)
(* unsigned long is held as its eight hexadecimal digits, least            *)
(* significant first.                                                      *)
(***************************************************************************)
\* a ^ b on unsigned values
RECURSIVE Xor(_, _)
Xor(a, b) ==
    IF a = 0 THEN b
    ELSE IF b = 0 THEN a
    ELSE ((a + b) % 2) + 2 * Xor(a \div 2, b \div 2)

ULongZero == << 0, 0, 0, 0, 0, 0, 0, 0 >>
ULONG_MAX == << 15, 15, 15, 15, 15, 15, 15, 15 >>

\* the digits are written out so that TLC holds a value as a tuple
ULongXor(a, b) ==
    << Xor(a[1], b[1]), Xor(a[2], b[2]), Xor(a[3], b[3]), Xor(a[4], b[4]),
       Xor(a[5], b[5]), Xor(a[6], b[6]), Xor(a[7], b[7]), Xor(a[8], b[8]) >>
ULongNot(a) ==
    << 15 - a[1], 15 - a[2], 15 - a[3], 15 - a[4],
       15 - a[5], 15 - a[6], 15 - a[7], 15 - a[8] >>
\* a >> 4
ULongShr4(a) == << a[2], a[3], a[4], a[5], a[6], a[7], a[8], 0 >>

\* the carries of a * m + c, digit by digit: Carry(a, m, c, i) enters digit i
RECURSIVE Carry(_, _, _, _)
Carry(a, m, c, i) ==
    IF i = 1 THEN c ELSE (a[i - 1] * m + Carry(a, m, c, i - 1)) \div 16

\* a * m + c modulo 2^32, and whether it overflowed
MulAddDigit(a, m, c, i) == (a[i] * m + Carry(a, m, c, i)) % 16
ULongMulAdd(a, m, c) ==
    << MulAddDigit(a, m, c, 1), MulAddDigit(a, m, c, 2), MulAddDigit(a, m, c, 3),
       MulAddDigit(a, m, c, 4), MulAddDigit(a, m, c, 5), MulAddDigit(a, m, c, 6),
       MulAddDigit(a, m, c, 7), MulAddDigit(a, m, c, 8) >>
ULongMulAddOverflows(a, m, c) == Carry(a, m, c, 9) > 0

\* the remainders of the long division of a by 10: Rem(a, i) leaves digit i
RECURSIVE Rem10(_, _)
Rem10(a, i) == IF i > 8 THEN 0 ELSE (Rem10(a, i + 1) * 16 + a[i]) % 10

Div10Digit(a, i) == (Rem10(a, i + 1) * 16 + a[i]) \div 10
ULongDiv10(a) ==
    << Div10Digit(a, 1), Div10Digit(a, 2), Div10Digit(a, 3), Div10Digit(a, 4),
       Div10Digit(a, 5), Div10Digit(a, 6), Div10Digit(a, 7), Div10Digit(a, 8) >>
ULongMod10(a) == Rem10(a, 1)

\* ultoa(n, buf, 10): the decimal digits of an unsigned long
RECURSIVE ultoa(_)
ultoa(n) ==
    IF ULongDiv10(n) = ULongZero THEN << 48 + ULongMod10(n) >>
    ELSE ultoa(ULongDiv10(n)) \o << 48 + ULongMod10(n) >>

\* the value of the leading run of digits of s in the given base, saturating
\* at ULONG_MAX
RECURSIVE ULongDigits(_, _, _)
ULongDigits(s, base, acc) ==
    IF s = << >> \/ ~isdigit(Head(s)) \/ Head(s) - 48 >= base THEN acc
    ELSE IF ULongMulAddOverflows(acc, base, Head(s) - 48) THEN ULONG_MAX
    ELSE CHOOSE result \in { ULongDigits(Tail(s), base, next) :
                                next \in { ULongMulAdd(acc, base, Head(s) - 48) } } : TRUE

\* strtoul(s, NULL, 0): optional sign, octal after a leading 0, decimal
\* otherwise, the value of the leading digits, saturating at ULONG_MAX
strtoul(s) ==
    LET neg  == s /= << >> /\ Head(s) = MinusSign
        body == IF neg THEN Tail(s) ELSE s
        base == IF body /= << >> /\ Head(body) = 48 THEN 8 ELSE 10
        mag  == ULongDigits(body, base, ULongZero)
    IN  IF neg /\ mag /= ULONG_MAX
        THEN ULongMulAdd(ULongNot(mag), 1, 1)
        ELSE mag

(***************************************************************************)
(* CRC-32, four bits at a time                                             *)
(***************************************************************************)
crcTable ==
    <<
       <<  0,  0,  0,  0,  0,  0,  0,  0 >>,
       <<  4,  6,  0,  1,  7, 11, 13,  1 >>,
       <<  8, 12,  0,  2, 14,  6, 11,  3 >>,
       << 12, 10,  0,  3,  9, 13,  6,  2 >>,
       <<  0,  9,  1,  4, 12, 13,  6,  7 >>,
       <<  4, 15,  1,  5, 11,  6, 11,  6 >>,
       <<  8,  5,  1,  6,  2, 11, 13,  4 >>,
       << 12,  3,  1,  7,  5,  0,  0,  5 >>,
       <<  0,  2,  3,  8,  8, 11, 13, 14 >>,
       <<  4,  4,  3,  9, 15,  0,  0, 15 >>,
       <<  8, 14,  3, 10,  6, 13,  6, 13 >>,
       << 12,  8,  3, 11,  1,  6, 11, 12 >>,
       <<  0, 11,  2, 12,  4,  6, 11,  9 >>,
       <<  4, 13,  2, 13,  3, 13,  6,  8 >>,
       <<  8,  7,  2, 14, 10,  0,  0, 10 >>,
       << 12,  1,  2, 15, 13, 11, 13, 11 >>
    >>

crcUpdate(crc, data) ==
    LET tableIndex1 == Xor(crc[1], data % 16)
        crc1        == ULongXor(crcTable[tableIndex1 + 1], ULongShr4(crc))
        tableIndex2 == Xor(crc1[1], (data \div 16) % 16)
    IN  ULongXor(crcTable[tableIndex2 + 1], ULongShr4(crc1))

RECURSIVE crcFold(_, _)
crcFold(crc, packet) ==
    IF packet = << >> THEN crc
    ELSE IF Len(packet) = 1 THEN crcUpdate(crc, packet[1])
    ELSE \* the bytes of the first half, then the bytes of the second half
         CHOOSE result \in
           { crcFold(middle, SubSeq(packet, (Len(packet) \div 2) + 1, Len(packet))) :
               middle \in { crcFold(crc, SubSeq(packet, 1, Len(packet) \div 2)) } } : TRUE

\* a checksum that leaves out the first byte of the packet
crcOfTail(packet) ==
    ULongNot(crcFold(ULONG_MAX, SubSeq(CStr(packet), 2, Len(CStr(packet)))))

\* crc = ~0L; one crcUpdate per byte of the C string; crc = ~crc
crcCalculator(packet) == ULongNot(crcFold(ULONG_MAX, CStr(packet)))

(***************************************************************************)
(* LightingProtocols.h: the routines and color groups of RoutinesRGB       *)
(***************************************************************************)
ELightingRoutine ==
    [ eOff |-> 0, eSingleSolid |-> 1, eSingleBlink |-> 2, eSingleWave |-> 3,
      eSingleGlimmer |-> 4, eSingleLinearFade |-> 5, eSingleSineFade |-> 6,
      eSingleSawtoothFadeIn |-> 7, eSingleSawtoothFadeOut |-> 8,
      eMultiGlimmer |-> 9, eMultiFade |-> 10, eMultiRandomSolid |-> 11,
      eMultiRandomIndividual |-> 12, eMultiBarsSolid |-> 13,
      eMultiBarsMoving |-> 14, eLightingRoutine_MAX |-> 15 ]

EColorGroup ==
    [ eCustom |-> 0, eWater |-> 1, eFrozen |-> 2, eSnow |-> 3, eCool |-> 4,
      eWarm |-> 5, eFire |-> 6, eEvil |-> 7, eCorrorsive |-> 8, ePoison |-> 9,
      eRose |-> 10, ePinkGreen |-> 11, eRedWhiteBlue |-> 12, eRGB |-> 13,
      eCMY |-> 14, eSixColor |-> 15, eSevenColor |-> 16, eAll |-> 17,
      eColorGroup_MAX |-> 18 ]

(***************************************************************************)
(* RoutinesRGB: the routine engine.  An engine is a record of the fields   *)
(* of the object; r_buffer, g_buffer and b_buffer are one sequence of      *)
(* colors, `buffer`, indexed from 1.  The scratch fields that every user   *)
(* writes before it reads them (x, m_scale_factor, m_difference,           *)
(* m_possible_array_color, m_repeat_index) are not part of the record.     *)
(***************************************************************************)
DEFAULT_BRIGHTNESS   == 50
DEFAULT_FADE_SPEED   == 25
DEFAULT_BLINK_SPEED  == 3
DEFAULT_CUSTOM_COUNT == 2
DEFAULT_BAR_SIZE     == 2

\* m_temp_float is kept as a whole number of millionths
FloatScale == 1000000

\* conversions to uint8_t and uint16_t
U8(v)  == v % 256
U16(v) == v % 65536

MakeColor(r, g, b) == [red |-> U8(r), green |-> U8(g), blue |-> U8(b)]
Black == MakeColor(0, 0, 0)

\* Color m_custom_colors[10], Color m_temp_array[10]
PaletteCapacity == 10

\* a sequence of n copies of v
Fill(n, v) == [i \in 1..n |-> v]

\* the custom colors resetToDefaults() stores
DefaultCustomColors ==
    << MakeColor(0, 255, 0), MakeColor(125, 0, 255), MakeColor(0, 0, 255),
       MakeColor(40, 127, 40), MakeColor(60, 0, 160),
       MakeColor(0, 255, 0), MakeColor(125, 0, 255), MakeColor(0, 0, 255),
       MakeColor(40, 127, 40), MakeColor(60, 0, 160) >>

\* brightness() without its test
SetBrightnessUnchecked(e, brightness) == [e EXCEPT !.m_bright_level = U8(brightness)]

\* brightness(uint8_t): values above 100 are ignored
SetBrightness(e, brightness) ==
    IF U8(brightness) <= 100 THEN [e EXCEPT !.m_bright_level = U8(brightness)] ELSE e

resetToDefaults(e) ==
    [ SetBrightness(e, DEFAULT_BRIGHTNESS) EXCEPT
        !.m_main_color      = MakeColor(100, 25, 0),
        !.m_current_group   = EColorGroup.eCustom,
        !.m_current_routine = ELightingRoutine.eSingleGlimmer,
        !.m_fade_speed      = DEFAULT_FADE_SPEED,
        !.m_blink_speed     = DEFAULT_BLINK_SPEED,
        !.m_custom_count    = DEFAULT_CUSTOM_COUNT,
        !.m_bar_size        = DEFAULT_BAR_SIZE,
        !.m_temp_index      = 0,
        !.m_temp_counter    = 0,
        !.m_temp_bool       = TRUE,
        !.m_temp_color      = Black,
        !.m_temp_float      = 0,
        !.m_goal_color      = Black,
        !.m_start_next_fade = TRUE,
        !.m_custom_colors   = DefaultCustomColors ]

\* RoutinesRGB(ledCount).  The engines of the sketches are objects of static
\* storage: the members the constructor does not set (m_preprocess_flag,
\* m_temp_array, m_temp_size, m_loop_index, m_loop_count, m_bright_level
\* before its setter runs) start zeroed.  `undefined` records that a call
\* left defined behaviour.
RoutinesRGB(ledCount) ==
    resetToDefaults(
      [ m_LED_count       |-> IF ledCount = 0 THEN 1 ELSE ledCount,
        buffer            |-> Fill(ledCount, Black),
        m_temp_buffer     |-> Fill(ledCount, 0),
        m_main_color      |-> Black,
        m_current_group   |-> 0,
        m_current_routine |-> 0,
        m_bright_level    |-> 0,
        m_fade_speed      |-> 0,
        m_blink_speed     |-> 0,
        m_custom_count    |-> 0,
        m_bar_size        |-> 0,
        m_temp_index      |-> 0,
        m_temp_counter    |-> 0,
        m_temp_bool       |-> FALSE,
        m_temp_color      |-> Black,
        m_temp_float      |-> 0,
        m_goal_color      |-> Black,
        m_start_next_fade |-> FALSE,
        m_custom_colors   |-> Fill(PaletteCapacity, Black),
        m_temp_array      |-> Fill(PaletteCapacity, Black),
        m_temp_size       |-> 0,
        m_preprocess_flag |-> FALSE,
        m_loop_index      |-> 0,
        m_loop_count      |-> 0,
        m_is_on           |-> TRUE,
        undefined         |-> FALSE ])

setMainColor(e, r, g, b) == [e EXCEPT !.m_main_color = MakeColor(r, g, b)]

setColor(e, colorIndex, r, g, b) ==
    IF U16(colorIndex) < PaletteCapacity
    THEN [e EXCEPT !.m_custom_colors[U16(colorIndex) + 1] = MakeColor(r, g, b)]
    ELSE e

\* a setCustomColorCount that stores the count and asks for no new setup
setCustomColorCountUnflagged(e, count) ==
    IF U8(count) /= 0 THEN [e EXCEPT !.m_custom_count = U8(count)] ELSE e

setCustomColorCount(e, count) ==
    IF U8(count) /= 0
    THEN [e EXCEPT !.m_custom_count = U8(count),
                   !.m_preprocess_flag =
                       IF e.m_current_group = EColorGroup.eCustom THEN TRUE ELSE @]
    ELSE e

barSize(e, barSizeSetting) ==
    IF U8(barSizeSetting) /= 0 /\ U8(barSizeSetting) < e.m_LED_count
    THEN [e EXCEPT !.m_bar_size = U8(barSizeSetting)] ELSE e

fadeSpeed(e, fadeSpeedSetting) ==
    IF U8(fadeSpeedSetting) /= 0
    THEN [e EXCEPT !.m_fade_speed = U8(fadeSpeedSetting)] ELSE e

\* blinkSpeed() that stores every value
blinkSpeedUnchecked(e, blinkSpeedSetting) == [e EXCEPT !.m_blink_speed = U8(blinkSpeedSetting)]

blinkSpeed(e, blinkSpeedSetting) ==
    IF U8(blinkSpeedSetting) /= 0
    THEN [e EXCEPT !.m_blink_speed = U8(blinkSpeedSetting)] ELSE e

\* turnOn() and turnOff() of the engine the Corluma sketch drives
turnOn(e)  == [e EXCEPT !.m_is_on = TRUE]
turnOff(e) == [e EXCEPT !.m_is_on = FALSE, !.buffer = Fill(Len(e.buffer), Black)]

(***************************************************************************)
(* random(min, max) of the Arduino core: min + (raw % (max - min)), where  *)
(* raw is the next output of the generator.  The generator belongs to the  *)
(* environment: a routine is given the raw outputs it consumes.            *)
(***************************************************************************)
random(raw, min, max) == IF min >= max THEN min ELSE min + (raw % (max - min))

\* the palettes setupColorGroup(eAll) draws when the generator's outputs
\* come from `entropy`: ten colors of three draws each
RandomPalettes(entropy) ==
    { [i \in 1..PaletteCapacity |->
          MakeColor(random(a, 0, 256), random(a + i, 0, 256), random(a + 2 * i, 0, 256))]
      : a \in entropy }

\* the presets of ColorPresets.h that the model uses
presetSizes(colorGroup) ==
    CASE colorGroup = EColorGroup.eRGB -> 3
      [] colorGroup = EColorGroup.eCMY -> 3
      [] OTHER -> 2

colorPresets(colorGroup) ==
    CASE colorGroup = EColorGroup.eRGB ->
           << MakeColor(255, 0, 0), MakeColor(0, 255, 0), MakeColor(0, 0, 255) >>
      [] colorGroup = EColorGroup.eCMY ->
           << MakeColor(255, 255, 0), MakeColor(0, 255, 255), MakeColor(255, 0, 255) >>
      [] OTHER ->
           << MakeColor(0, 0, 255), MakeColor(0, 255, 255) >>

\* the first n entries of `from` laid over `onto`
Overlay(from, n, onto) ==
    [i \in 1..Len(onto) |-> IF i <= n /\ i <= Len(from) THEN from[i] ELSE onto[i]]

setupColorGroup(e, colorGroup, palette) ==
    IF colorGroup = EColorGroup.eCustom
    THEN [e EXCEPT !.m_temp_size = e.m_custom_count, !.m_temp_array = e.m_custom_colors]
    ELSE IF colorGroup = EColorGroup.eAll
    THEN [e EXCEPT !.m_temp_size = PaletteCapacity, !.m_temp_array = palette]
    ELSE [e EXCEPT !.m_temp_size = presetSizes(colorGroup),
                   !.m_temp_array = Overlay(colorPresets(colorGroup),
                                            presetSizes(colorGroup), e.m_temp_array)]

\* the loop of movingBufferSetup: st = [buf, counter, index]
RECURSIVE MovingFill(_, _, _, _, _, _)
MovingFill(x, loopIndex, st, groupSize, colorCount, startingValue) ==
    IF x >= loopIndex THEN st
    ELSE LET counter == U16(st.counter + 1)
             wrap    == counter = groupSize
             index   == IF ~wrap THEN st.index
                        ELSE IF U16(st.index + 1) = colorCount THEN startingValue
                        ELSE U16(st.index + 1)
         IN  MovingFill(x + 1, loopIndex,
                        [buf     |-> Append(st.buf, U8(st.index)),
                         counter |-> IF wrap THEN 0 ELSE counter,
                         index   |-> index],
                        groupSize, colorCount, startingValue)

\* m_temp_buffer[0 .. loopIndex - 1] is rewritten; a division by zero or a
\* write past the allocation is recorded in `undefined`
movingBufferSetup(e, colorCount, groupSizeIn, startingValueIn) ==
    LET groupSize     == IF U8(groupSizeIn) * colorCount > e.m_LED_count
                         THEN 1 ELSE U8(groupSizeIn)
        loopIndex     == U16(groupSize * colorCount)
        loopCount     == IF loopIndex = 0 THEN 0
                         ELSE U8((e.m_LED_count \div loopIndex) + 1)
        starts        == startingValueIn < colorCount
        startingValue == IF starts THEN startingValueIn ELSE 0
        st0           == [buf |-> << >>, counter |-> e.m_temp_counter,
                          index |-> IF starts THEN startingValueIn ELSE e.m_temp_index]
        st            == MovingFill(0, loopIndex, st0, groupSize, colorCount, startingValue)
        kept          == SubSeq(e.m_temp_buffer, Len(st.buf) + 1, Len(e.m_temp_buffer))
    IN  [e EXCEPT !.m_loop_index   = loopIndex,
                  !.m_loop_count   = loopCount,
                  !.m_temp_buffer  = st.buf \o kept,
                  !.m_temp_counter = st.counter,
                  !.m_temp_index   = st.index,
                  !.undefined      = @ \/ loopIndex = 0
                                       \/ loopIndex > Len(e.m_temp_buffer)]

\* the enum parameters are unsigned on this target: a negative argument
\* converts to a large value, and `newGroup < 0` is never true
ClampGroup(newGroup) ==
    IF U16(newGroup) >= EColorGroup.eColorGroup_MAX
    THEN EColorGroup.eColorGroup_MAX - 1 ELSE U16(newGroup)

ResetTemps(e) ==
    [e EXCEPT !.m_temp_index = 0, !.m_temp_counter = 0,
              !.m_temp_bool = TRUE, !.m_temp_color = Black]

\* "Group Has Changed" of preProcess
GroupChanged(e, newRoutine, newGroup, palette) ==
    With(setupColorGroup(
           [ResetTemps(e) EXCEPT
              !.m_preprocess_flag = FALSE,
              !.m_start_next_fade =
                  IF newRoutine = ELightingRoutine.eMultiFade THEN TRUE ELSE @],
           newGroup, palette), LAMBDA b :
    With(IF newRoutine \in {ELightingRoutine.eMultiBarsMoving,
                            ELightingRoutine.eMultiBarsSolid}
         THEN movingBufferSetup([b EXCEPT !.m_temp_index = 0],
                                b.m_temp_size, b.m_bar_size, 0)
         ELSE b, LAMBDA c :
    With(IF newRoutine = ELightingRoutine.eSingleWave
         THEN movingBufferSetup(
                [c EXCEPT !.m_temp_index = 0,
                          !.m_temp_float =
                              (c.m_LED_count \div (2 * c.m_bar_size)) * FloatScale],
                c.m_LED_count \div (2 * c.m_bar_size), c.m_bar_size, 1)
         ELSE c, LAMBDA d :
      [d EXCEPT !.m_temp_counter =
                    IF newRoutine = ELightingRoutine.eSingleSawtoothFadeOut
                    THEN d.m_fade_speed ELSE @,
                !.m_current_group = newGroup])))

\* a preProcess that takes every call for a change of routine and group
preProcessAlways(e, newRoutine, newGroupIn, palette) ==
    GroupChanged([ResetTemps(e) EXCEPT !.m_current_routine = newRoutine],
                 newRoutine, ClampGroup(newGroupIn), palette)

preProcess(e, newRoutine, newGroupIn, palette) ==
    With(IF e.m_current_routine /= newRoutine \/ e.m_preprocess_flag
         THEN [ResetTemps(e) EXCEPT !.m_preprocess_flag = TRUE,
                                    !.m_current_routine = newRoutine]
         ELSE e, LAMBDA e1 :
      IF e1.m_current_group /= ClampGroup(newGroupIn) \/ e1.m_preprocess_flag
      THEN GroupChanged(e1, newRoutine, ClampGroup(newGroupIn), palette)
      ELSE e1)

(***************************************************************************)
(* The routines.  Each operator below is the body of the routine after its *)
(* call of preProcess: p is the engine preProcess left, led[x + 1] the     *)
(* draws LED x consumes.  enterRoutine is the part up to and including     *)
(* preProcess.                                                             *)
(***************************************************************************)
memset(p, color) == [p EXCEPT !.buffer = Fill(p.m_LED_count, color)]

\* (uint8_t)(channel * (m_temp_counter / (float)m_fade_speed))
FadeLevel(channel, counter, fade) == U8((channel * counter) \div fade)

FadeColor(red, green, blue, counter, fade) ==
    MakeColor(FadeLevel(red, counter, fade), FadeLevel(green, counter, fade),
              FadeLevel(blue, counter, fade))

\* (sin(ratio * 6.28f - 1.67f) + 1) / 2.0f in millionths, at the quarter
\* turns of the ratio m_temp_counter / m_fade_speed
SineQuarters == << 2458, 450083, 997462, 550709, 2618 >>

SineLevel(counter, fade) == SineQuarters[Min((4 * counter) \div fade, 4) + 1]

\* (uint8_t)(channel * m_temp_float)
FloatLevel(channel, float) == U8((channel * float) \div FloatScale)

\* (uint8_t)(channel * (value / m_temp_float))
WaveLevel(channel, value, float) ==
    IF float \div 1000 = 0 THEN 0
    ELSE U8((channel * value * 1000) \div (float \div 1000))

\* array[i] of a palette of PaletteCapacity colors
ArrayAt(array, i) == IF i < PaletteCapacity THEN array[i + 1] ELSE Black

DivColor(c, scale) ==
    MakeColor(c.red \div scale, c.green \div scale, c.blue \div scale)

\* chooseRandomFromArray(m_temp_array, m_temp_size, true)
chooseRandomFromArray(p, raw) ==
    LET index == U8(random(raw, 0, p.m_temp_size))
    IN  [p EXCEPT !.m_temp_index = index, !.m_temp_color = ArrayAt(p.m_temp_array, index)]

singleSolid(p, red, green, blue) == memset(p, MakeColor(red, green, blue))

singleBlink(p, red, green, blue) ==
    LET q == IF p.m_temp_counter % p.m_blink_speed = 0
             THEN [memset(p, IF p.m_temp_bool THEN MakeColor(red, green, blue) ELSE Black)
                     EXCEPT !.m_temp_bool = ~@]
             ELSE p
    IN  [q EXCEPT !.m_temp_counter = U16(@ + 1)]

\* the value of m_temp_counter at LED x of singleWave and multiBarsMoving
LoopedIndex(p, x) == (U8(x % p.m_loop_index) + p.m_temp_index) % p.m_loop_index

\* the common loop of singleWave and multiBarsMoving; ColorOf(v) is not a
\* parameter: the colors are passed as the sequence indexed by v + 1
LoopedDraw(p, colors) ==
    IF p.m_loop_index = 0 THEN [p EXCEPT !.undefined = TRUE]
    ELSE LET n    == Min(p.m_loop_count * p.m_loop_index, p.m_LED_count)
             at(x) == p.m_temp_buffer[LoopedIndex(p, x) + 1]
         IN  [p EXCEPT
                !.buffer = [i \in 1..p.m_LED_count |->
                              IF i <= n THEN colors[at(i - 1) + 1] ELSE p.buffer[i]],
                !.m_temp_counter = IF n > 0 THEN LoopedIndex(p, n - 1) ELSE @,
                !.m_temp_index = (p.m_temp_index + 1) % p.m_loop_index]

singleWave(p, red, green, blue) ==
    LoopedDraw(p, [v \in 1..256 |->
                     MakeColor(WaveLevel(red, v - 1, p.m_temp_float),
                               WaveLevel(green, v - 1, p.m_temp_float),
                               WaveLevel(blue, v - 1, p.m_temp_float))])

Glimmers(draw, percent) == random(draw, 1, 101) < U8(percent) /\ U8(percent) /= 0

singleGlimmer(p, red, green, blue, percent, shouldUpdate, led) ==
    [p EXCEPT !.buffer =
        [i \in 1..p.m_LED_count |->
            IF shouldUpdate /\ Glimmers(led[i].percent, percent)
            THEN DivColor(MakeColor(red, green, blue), random(led[i].scale, 2, 6))
            ELSE MakeColor(red, green, blue)]]

singleLinearFade(p, red, green, blue, shouldUpdate) ==
    LET counter == IF ~shouldUpdate THEN p.m_temp_counter
                   ELSE IF p.m_temp_bool THEN U16(p.m_temp_counter + 1)
                   ELSE U16(p.m_temp_counter - 1)
        bool    == IF ~shouldUpdate THEN p.m_temp_bool
                   ELSE IF counter = p.m_fade_speed THEN FALSE
                   ELSE IF counter = 0 THEN TRUE ELSE p.m_temp_bool
    IN  [memset(p, FadeColor(red, green, blue, counter, p.m_fade_speed))
           EXCEPT !.m_temp_counter = counter, !.m_temp_bool = bool]

singleSawtoothFadeIn(p, red, green, blue, shouldUpdate) ==
    LET counter == IF ~shouldUpdate THEN p.m_temp_counter
                   ELSE IF p.m_temp_bool THEN U16(p.m_temp_counter + 1) ELSE 0
        bool    == IF ~shouldUpdate THEN p.m_temp_bool
                   ELSE counter /= p.m_fade_speed
    IN  [memset(p, FadeColor(red, green, blue, counter, p.m_fade_speed))
           EXCEPT !.m_temp_counter = counter, !.m_temp_bool = bool]

singleSawtoothFadeOut(p, red, green, blue, shouldUpdate) ==
    LET counter == IF ~shouldUpdate THEN p.m_temp_counter
                   ELSE IF p.m_temp_bool THEN U16(p.m_temp_counter - 1)
                   ELSE p.m_fade_speed
        bool    == IF ~shouldUpdate THEN p.m_temp_bool
                   ELSE counter /= 0
    IN  [memset(p, FadeColor(red, green, blue, counter, p.m_fade_speed))
           EXCEPT !.m_temp_counter = counter, !.m_temp_bool = bool]

singleSineFade(p, red, green, blue, shouldUpdate) ==
    LET float   == SineLevel(p.m_temp_counter, p.m_fade_speed)
        counter == IF ~shouldUpdate THEN p.m_temp_counter
                   ELSE IF p.m_temp_bool THEN U16(p.m_temp_counter + 1) ELSE 0
        bool    == IF ~shouldUpdate THEN p.m_temp_bool
                   ELSE counter /= p.m_fade_speed
    IN  [memset(p, MakeColor(FloatLevel(red, float), FloatLevel(green, float),
                             FloatLevel(blue, float)))
           EXCEPT !.m_temp_float = float, !.m_temp_counter = counter,
                  !.m_temp_bool = bool]

\* the color LED x of multiGlimmer works on, and whether it picks one
PicksColor(percent, led, i) == Glimmers(led[i].percent, percent)

PickedIndex(p, led, i) == U8(random(led[i].index, 0, p.m_temp_size))

multiGlimmer(p, percent, led) ==
    LET color(i) == IF PicksColor(percent, led, i)
                    THEN ArrayAt(p.m_temp_array, PickedIndex(p, led, i))
                    ELSE p.m_temp_array[1]
        picks    == {i \in 1..p.m_LED_count : PicksColor(percent, led, i)}
        last     == CHOOSE i \in picks : \A j \in picks : j <= i
    IN  [p EXCEPT
           !.buffer = [i \in 1..p.m_LED_count |->
                         IF Glimmers(led[i].dim, percent)
                         THEN DivColor(color(i), random(led[i].scale, 2, 6))
                         ELSE p.m_temp_color],
           !.m_temp_color = color(p.m_LED_count),
           !.m_temp_index = IF picks = {} THEN @ ELSE PickedIndex(p, led, last)]

\* a fadeBetweenValues that always steps by the fade speed
fadeBetweenValuesUnclamped(p, fadeChannel, destinationChannel) ==
    IF fadeChannel < destinationChannel
    THEN [channel |-> U8(fadeChannel + p.m_fade_speed), moving |-> TRUE]
    ELSE IF fadeChannel > destinationChannel
    THEN [channel |-> U8(fadeChannel - p.m_fade_speed), moving |-> TRUE]
    ELSE [channel |-> fadeChannel, moving |-> FALSE]

\* fadeBetweenValues: the new channel, and whether it moved without arriving
fadeBetweenValues(p, fadeChannel, destinationChannel) ==
    IF fadeChannel < destinationChannel
    THEN IF destinationChannel - fadeChannel < p.m_fade_speed
         THEN [channel |-> destinationChannel, moving |-> FALSE]
         ELSE [channel |-> fadeChannel + p.m_fade_speed, moving |-> TRUE]
    ELSE IF fadeChannel > destinationChannel
    THEN IF fadeChannel - destinationChannel < p.m_fade_speed
         THEN [channel |-> destinationChannel, moving |-> FALSE]
         ELSE [channel |-> fadeChannel - p.m_fade_speed, moving |-> TRUE]
    ELSE [channel |-> fadeChannel, moving |-> FALSE]

\* a multiFade that never goes on to the next color
multiFadeStalled(p) ==
    memset([p EXCEPT !.m_start_next_fade = FALSE, !.m_temp_bool = TRUE], p.m_temp_color)

multiFade(p) ==
    LET next    == (p.m_temp_counter + 1) % p.m_temp_size
        q       == IF ~p.m_start_next_fade THEN p
                   ELSE IF p.m_temp_size > 1
                   THEN [p EXCEPT !.m_temp_counter = next,
                                  !.m_temp_color = ArrayAt(p.m_temp_array, next),
                                  !.m_goal_color =
                                      ArrayAt(p.m_temp_array, (next + 1) % p.m_temp_size)]
                   ELSE [p EXCEPT !.m_temp_counter = 0,
                                  !.m_goal_color = p.m_temp_array[1],
                                  !.m_temp_color = p.m_temp_array[1]]
        r       == fadeBetweenValues(q, q.m_temp_color.red, q.m_goal_color.red)
        g       == fadeBetweenValues(q, q.m_temp_color.green, q.m_goal_color.green)
        b       == fadeBetweenValues(q, q.m_temp_color.blue, q.m_goal_color.blue)
        arrived == ~(r.moving \/ g.moving \/ b.moving)
        color   == MakeColor(r.channel, g.channel, b.channel)
    IN  [memset(q, color) EXCEPT !.m_start_next_fade = arrived,
                                 !.m_temp_bool = arrived,
                                 !.m_temp_color = color]

multiRandomSolid(p, colorGroup, led) ==
    LET anyColor == MakeColor(random(led[1].percent, 0, 256),
                              random(led[1].index, 0, 256),
                              random(led[1].dim, 0, 256))
        q == IF p.m_temp_counter % p.m_blink_speed /= 0 THEN p
             ELSE IF U16(colorGroup) = EColorGroup.eAll
             THEN memset([p EXCEPT !.m_temp_color = anyColor], anyColor)
             ELSE LET c == chooseRandomFromArray(p, led[1].index)
                  IN  memset(c, c.m_temp_color)
    IN  [q EXCEPT !.m_temp_counter = U16(@ + 1)]

multiRandomIndividual(p, colorGroup, led) ==
    IF U16(colorGroup) = EColorGroup.eAll
    THEN [p EXCEPT !.buffer =
            [i \in 1..p.m_LED_count |->
                MakeColor(random(led[i].percent, 0, 256), random(led[i].index, 0, 256),
                          random(led[i].dim, 0, 256))]]
    ELSE LET last == chooseRandomFromArray(p, led[p.m_LED_count].index)
         IN  [last EXCEPT !.buffer =
                [i \in 1..p.m_LED_count |->
                    chooseRandomFromArray(p, led[i].index).m_temp_color]]

multiBarsSolid(p) ==
    IF p.m_temp_size = 0 THEN [p EXCEPT !.undefined = TRUE]
    ELSE [p EXCEPT
            !.buffer = [i \in 1..p.m_LED_count |->
                          ArrayAt(p.m_temp_array,
                                  ((i - 1) \div p.m_bar_size) % p.m_temp_size)],
            !.m_temp_counter = p.m_LED_count % p.m_bar_size,
            !.m_temp_index = (p.m_LED_count \div p.m_bar_size) % p.m_temp_size]

multiBarsMoving(p) ==
    LoopedDraw(p, [v \in 1..256 |-> ArrayAt(p.m_temp_array, v - 1)])

\* a color with 8-bit products: the (uint16_t) cast left out
ScaleColorNarrow(c, level) ==
    MakeColor(U8(c.red * level) \div 100, U8(c.green * level) \div 100,
              U8(c.blue * level) \div 100)

\* (uint8_t)((channel * (uint16_t)m_bright_level) / 100): the product is an
\* unsigned int of 16 bits
ScaleColor(c, level) ==
    MakeColor(U16(c.red * level) \div 100, U16(c.green * level) \div 100,
              U16(c.blue * level) \div 100)

applyBrightness(e) ==
    [e EXCEPT !.buffer = [i \in 1..Len(e.buffer) |-> ScaleColor(e.buffer[i], e.m_bright_level)]]

\* The public routine functions, by name.  A call is a record
\* [fn, red, green, blue, colorGroup, param, shouldUpdate].
SingleRoutines ==
    { "singleSolid", "singleBlink", "singleWave", "singleGlimmer", "singleLinearFade",
      "singleSineFade", "singleSawtoothFadeIn", "singleSawtoothFadeOut" }
MultiRoutines ==
    { "multiGlimmer", "multiFade", "multiRandomSolid", "multiRandomIndividual",
      "multiBarsSolid", "multiBarsMoving" }

\* the ELightingRoutine each routine function passes to preProcess
PreProcessRoutine(fn) ==
    CASE fn = "singleSolid"           -> ELightingRoutine.eSingleSolid
      [] fn = "singleBlink"           -> ELightingRoutine.eSingleBlink
      [] fn = "singleWave"            -> ELightingRoutine.eSingleWave
      [] fn = "singleGlimmer"         -> ELightingRoutine.eSingleGlimmer
      [] fn = "singleLinearFade"      -> ELightingRoutine.eSingleLinearFade
      [] fn = "singleSineFade"        -> ELightingRoutine.eSingleLinearFade
      [] fn = "singleSawtoothFadeIn"  -> ELightingRoutine.eSingleSawtoothFadeIn
      [] fn = "singleSawtoothFadeOut" -> ELightingRoutine.eSingleSawtoothFadeOut
      [] fn = "multiGlimmer"          -> ELightingRoutine.eMultiGlimmer
      [] fn = "multiFade"             -> ELightingRoutine.eMultiFade
      [] fn = "multiRandomSolid"      -> ELightingRoutine.eMultiRandomSolid
      [] fn = "multiRandomIndividual" -> ELightingRoutine.eMultiRandomIndividual
      [] fn = "multiBarsSolid"        -> ELightingRoutine.eMultiBarsSolid
      [] fn = "multiBarsMoving"       -> ELightingRoutine.eMultiBarsMoving

\* the setter a routine function calls before preProcess
RoutineSetter(e, call) ==
    IF call.fn \in {"singleWave", "multiBarsSolid", "multiBarsMoving"}
    THEN barSize(e, call.param)
    ELSE IF call.fn \in {"singleLinearFade", "singleSineFade",
                         "singleSawtoothFadeIn", "singleSawtoothFadeOut"}
    THEN fadeSpeed(e, call.param)
    ELSE e

\* a routine function up to the return of its preProcess call
enterRoutine(e, call, palette) ==
    LET s == RoutineSetter(e, call)
    IN  preProcess(s, PreProcessRoutine(call.fn),
                   IF call.fn \in SingleRoutines THEN s.m_current_group
                   ELSE call.colorGroup,
                   palette)

\* the rest of the routine function
drawRoutine(p, call, led) ==
    CASE call.fn = "singleSolid"   -> singleSolid(p, call.red, call.green, call.blue)
      [] call.fn = "singleBlink"   -> singleBlink(p, call.red, call.green, call.blue)
      [] call.fn = "singleWave"    -> singleWave(p, call.red, call.green, call.blue)
      [] call.fn = "singleGlimmer" ->
           singleGlimmer(p, call.red, call.green, call.blue, call.param,
                         call.shouldUpdate, led)
      [] call.fn = "singleLinearFade" ->
           singleLinearFade(p, call.red, call.green, call.blue, call.shouldUpdate)
      [] call.fn = "singleSineFade" ->
           singleSineFade(p, call.red, call.green, call.blue, call.shouldUpdate)
      [] call.fn = "singleSawtoothFadeIn" ->
           singleSawtoothFadeIn(p, call.red, call.green, call.blue, call.shouldUpdate)
      [] call.fn = "singleSawtoothFadeOut" ->
           singleSawtoothFadeOut(p, call.red, call.green, call.blue, call.shouldUpdate)
      [] call.fn = "multiGlimmer"          -> multiGlimmer(p, call.param, led)
      [] call.fn = "multiFade"             -> multiFade(p)
      [] call.fn = "multiRandomSolid"      -> multiRandomSolid(p, call.colorGroup, led)
      [] call.fn = "multiRandomIndividual" -> multiRandomIndividual(p, call.colorGroup, led)
      [] call.fn = "multiBarsSolid"        -> multiBarsSolid(p)
      [] call.fn = "multiBarsMoving"       -> multiBarsMoving(p)

callRoutine(e, call, rnd) == drawRoutine(enterRoutine(e, call, rnd.palette), call, rnd.led)

(***************************************************************************)
(* CorlumaSample.ino, built with IS_NEOPIXELS and IS_SERIAL (one device,   *)
(* USE_CRC true, USE_NEWLINE false)                                        *)
(***************************************************************************)
BAR_SIZE            == 4
GLIMMER_PERCENT     == 10
DELAY_VALUE         == 10
DEFAULT_SPEED       == 100
MAX_SPEED_VALUE     == 200
DEFAULT_TIMEOUT     == 120
DEFAULT_HW_INDEX    == 1
DEVICE_COUNT        == 1
max_number_of_ints  == 15
MillisPerMinute     == 60000

\* ArduCorProtocols.h: the routines, palettes and packet headers of ArduCor
ERoutine ==
    [ eSingleSolid |-> 0, eSingleBlink |-> 1, eSingleWave |-> 2, eSingleGlimmer |-> 3,
      eSingleFade |-> 4, eSingleSawtoothFade |-> 5, eMultiGlimmer |-> 6,
      eMultiFade |-> 7, eMultiRandomSolid |-> 8, eMultiRandomIndividual |-> 9,
      eMultiBars |-> 10, eRoutine_MAX |-> 11 ]

EPalette == [ eCustom |-> 0, ePalette_MAX |-> 17 ]

EPacketHeader ==
    [ eOnOffChange |-> 0, eModeChange |-> 1, eCustomArrayColorChange |-> 2,
      eBrightnessChange |-> 3, eIdleTimeoutChange |-> 4,
      eCustomColorCountChange |-> 5, eStateUpdateRequest |-> 6,
      eCustomArrayUpdateRequest |-> 7, ePacketHeader_MAX |-> 8 ]

\* conversion to int (16 bits)
I16(v) == ((v + 32768) % 65536) - 32768

\* the characters checkIfPacketIsValid accepts
IsPacketChar(c) ==
    isdigit(c) \/ c \in {value_delimiter, message_delimiter, crc_delimiter, MinusSign}

\* checkIfPacketIsValid without the comparison of the two checksums
checkWithoutCrcCompare(message) ==
    LET s         == CStr(message)
        hashes    == {i \in 1..Len(s) : s[i] = crc_delimiter}
        hash      == CHOOSE i \in hashes : TRUE
    IN  IF Cardinality(hashes) /= 1 \/ ~(\A i \in 1..Len(s) : IsPacketChar(s[i]))
        THEN [valid |-> FALSE, undefined |-> FALSE, packet |-> s]
        ELSE [valid |-> TRUE, undefined |-> FALSE, packet |-> SubSeq(s, 1, hash - 1)]

\* checkIfPacketIsValid without the test of the characters
checkWithoutCharacterTest(message) ==
    LET s         == CStr(message)
        hashes    == {i \in 1..Len(s) : s[i] = crc_delimiter}
        hash      == CHOOSE i \in hashes : TRUE
        payload   == SubSeq(s, 1, hash - 1)
        crcTokens == strtok(SubSeq(s, hash + 1, Len(s)), message_delimiter)
    IN  IF Cardinality(hashes) /= 1
        THEN [valid |-> FALSE, undefined |-> FALSE, packet |-> s]
        ELSE [valid     |-> crcTokens /= << >>
                              /\ crcCalculator(payload) = strtoul(crcTokens[1]),
              undefined |-> FALSE,
              packet    |-> payload]

\* checkIfPacketIsValid(message): whether the packet is valid, and the char
\* array as the two strtok calls leave it (the "#" replaced by a NUL, so that
\* the C string is the payload).  `undefined` is the call strtoul(NULL, ..),
\* made when no checksum token follows the "#".
checkIfPacketIsValid(message) ==
    LET s         == CStr(message)
        isValid   == \A i \in 1..Len(s) : IsPacketChar(s[i])
        hashes    == {i \in 1..Len(s) : s[i] = crc_delimiter}
        hash      == CHOOSE i \in hashes : TRUE
        payload   == SubSeq(s, 1, hash - 1)
        crcTokens == strtok(SubSeq(s, hash + 1, Len(s)), message_delimiter)
    IN  IF Cardinality(hashes) /= 1 \/ ~isValid
        THEN [valid |-> FALSE, undefined |-> FALSE, packet |-> s]
        ELSE IF hash = 1 \/ crcTokens = << >>
        THEN [valid |-> FALSE, undefined |-> TRUE,
              packet |-> IF hash = 1 THEN s ELSE payload]
        ELSE [valid     |-> crcCalculator(payload) = strtoul(crcTokens[1]),
              undefined |-> FALSE,
              packet    |-> payload]

\* delimitedStringToIntArray(message): packet_int_array[0 .. int_array_size - 1]
delimitedStringToIntArray(message) ==
    LET values == strtok(CStr(message), value_delimiter)
    IN  [i \in 1..Len(values) |-> atoi(values[i])]

\* the C string delimitedStringToIntArray leaves in the char array it parsed:
\* the first "," after the first value is replaced by a NUL
ParsedString(message) ==
    LET s     == CStr(message)
        first == FirstFrom(s, 1, {value_delimiter}, FALSE)
    IN  SubSeq(s, 1, FirstFrom(s, first, {value_delimiter}, TRUE) - 1)

\* the "#<crc>&" that the builders and echoPacket append, and the ";"
CrcSuffix(packet) ==
    << crc_delimiter >> \o ultoa(crcCalculator(packet)) \o << message_delimiter >>
       \o << packet_delimiter >>

\* #if IS_MULTI: the build of the multi sample, with a second device
\* (routines_2, the globals named ..._2); k.IS_MULTI is the build flag
\* uint8_t routines_2_index = DEFAULT_HW_INDEX + 1
routines_2_index == DEFAULT_HW_INDEX + 1

calculateMinutesUntilTimeout(last_message, timeout_max, millis) ==
    IF timeout_max = 0 THEN 1
    ELSE IF last_message + timeout_max < millis THEN 0
    ELSE ((timeout_max + last_message - millis) \div MillisPerMinute) + 1

\* A machine m is the sketch and its engine during one pass of loop():
\* m.k the globals of the sketch, m.r the engine `routines`, m.out the
\* packets written to Serial, m.millis the clock, m.applied the int arrays of
\* the messages parsePacket accepted.
buildStateUpdatePacket(m) ==
    LET packet ==
          JoinValues(<< U8(EPacketHeader.eStateUpdateRequest), U8(DEFAULT_HW_INDEX),
                          IF m.r.m_is_on THEN 1 ELSE 0, 1,
                          m.r.m_main_color.red, m.r.m_main_color.green,
                          m.r.m_main_color.blue,
                          U8(m.k.current_routine), U8(m.k.current_palette),
                          m.r.m_bright_level, m.k.update_speed,
                          I16(m.k.idle_timeout \div MillisPerMinute),
                          I16(calculateMinutesUntilTimeout(
                                  m.k.last_message_time, m.k.idle_timeout, m.millis)) >>)
             \o << message_delimiter >>
        \* #if IS_MULTI: the message of the second device
        packet_2 ==
          JoinValues(<< U8(EPacketHeader.eStateUpdateRequest), U8(routines_2_index),
                          IF m.r2.m_is_on THEN 1 ELSE 0, 1,
                          m.r2.m_main_color.red, m.r2.m_main_color.green,
                          m.r2.m_main_color.blue,
                          U8(m.k.current_routine_2), U8(m.k.current_palette_2),
                          m.r2.m_bright_level, m.k.update_speed_2,
                          I16(m.k.idle_timeout_2 \div MillisPerMinute),
                          I16(calculateMinutesUntilTimeout(
                                  m.k.last_message_time, m.k.idle_timeout_2, m.millis)) >>)
             \o << message_delimiter >>
        both == IF m.k.IS_MULTI THEN packet \o packet_2 ELSE packet
    IN  both \o CrcSuffix(both)

RECURSIVE CustomColorValues(_, _)
CustomColorValues(r, i) ==
    IF i >= r.m_custom_count THEN << >>
    ELSE LET c == IF i < PaletteCapacity THEN r.m_custom_colors[i + 1] ELSE Black
         IN  << c.red, c.green, c.blue >> \o CustomColorValues(r, i + 1)

buildCustomArrayUpdatePacket(m) ==
    LET packet ==
          JoinValues(<< U8(EPacketHeader.eCustomArrayUpdateRequest),
                          U8(DEFAULT_HW_INDEX), m.r.m_custom_count >>
                       \o CustomColorValues(m.r, 0))
             \o << message_delimiter >>
    IN  packet \o CrcSuffix(packet)

\* #if IS_MULTI: the colors of routines_2, as many as routines.customColorCount()
RECURSIVE CustomColorValues_2(_, _, _)
CustomColorValues_2(r, r2, i) ==
    IF i >= r.m_custom_count THEN << >>
    ELSE LET c == IF i < PaletteCapacity THEN r2.m_custom_colors[i + 1] ELSE Black
         IN  << c.red, c.green, c.blue >> \o CustomColorValues_2(r, r2, i + 1)

buildCustomArrayUpdatePacket_2(m) ==
    LET packet ==
          JoinValues(<< U8(EPacketHeader.eCustomArrayUpdateRequest),
                          U8(routines_2_index), m.r2.m_custom_count >>
                       \o CustomColorValues_2(m.r, m.r2, 0))
             \o << message_delimiter >>
    IN  packet \o CrcSuffix(packet)

\* echoPacket(): Serial.write of echo_message with its checksum
echoPacket(m) ==
    [m EXCEPT !.out = Append(@, m.k.echo_message \o CrcSuffix(m.k.echo_message)),
              !.k.echo_message = m.k.echo_message \o CrcSuffix(m.k.echo_message)]

\* packet_int_array[i]
At(ints, i) == ints[i + 1]

\* (received_hardware_index == hardware_index) || (received_hardware_index == 0)
Addressed(m) ==
    m.k.received_hardware_index = DEFAULT_HW_INDEX \/ m.k.received_hardware_index = 0

\* (received_hardware_index == routines_2_index) || (received_hardware_index == 0),
\* inside #if IS_MULTI
Addressed_2(m) ==
    /\ m.k.IS_MULTI
    /\ (m.k.received_hardware_index = routines_2_index \/ m.k.received_hardware_index = 0)

\* DEVICE_COUNT of the build
DeviceCount(k) == IF k.IS_MULTI THEN 2 ELSE DEVICE_COUNT

ValidSpeed(speedValue) == speedValue >= 0 /\ speedValue <= MAX_SPEED_VALUE

\* parseColor: the machine it leaves and its result
parseColor(m, red, green, blue) ==
    IF (red >= 0 /\ red <= 255) \/ (green >= 0 /\ green <= 255)
          \/ (blue >= 0 /\ blue <= 255)
    THEN LET m1 == IF Addressed(m)
                        /\ (red /= m.r.m_main_color.red \/ green /= m.r.m_main_color.green
                              \/ blue /= m.r.m_main_color.blue)
                   THEN [m EXCEPT !.k.reset_counter = TRUE,
                                  !.r = setMainColor(m.r, red, green, blue)]
                   ELSE m
         IN  [success |-> TRUE,
              m |-> IF Addressed_2(m)
                         /\ (red /= m.r2.m_main_color.red
                               \/ green /= m.r2.m_main_color.green
                               \/ blue /= m.r2.m_main_color.blue)
                    THEN [m1 EXCEPT !.k.reset_counter = TRUE,
                                    !.r2 = setMainColor(m.r2, red, green, blue)]
                    ELSE m1]
    ELSE [success |-> FALSE, m |-> m]

ResetIf(m, cond) == IF cond THEN [m EXCEPT !.k.reset_counter = TRUE] ELSE m

\* The switch of routineParser: the machine it leaves, isValid, palette and
\* speedValue.
RoutineSwitch(m, ints) ==
    LET size    == Len(ints)
        routine == At(ints, 2)
        none    == [m |-> m, isValid |-> FALSE, palette |-> EPalette.ePalette_MAX,
                    speedValue |-> 0]
        color   == parseColor(m, At(ints, 3), At(ints, 4), At(ints, 5))
    IN  CASE routine = ERoutine.eSingleSolid ->
               IF size = 6
               THEN [none EXCEPT !.m = color.m, !.isValid = color.success]
               ELSE none
          [] routine \in {ERoutine.eSingleBlink, ERoutine.eSingleWave} ->
               IF size = 7
               THEN LET ok == ValidSpeed(At(ints, 6))
                        m1 == IF ok THEN color.m ELSE m
                    IN  [none EXCEPT !.m = ResetIf(m1, routine /= m.k.current_routine),
                                     !.isValid = ok /\ color.success,
                                     !.speedValue = At(ints, 6)]
               ELSE none
          [] routine \in {ERoutine.eSingleFade, ERoutine.eSingleSawtoothFade,
                          ERoutine.eSingleGlimmer} ->
               IF size = 8
               THEN LET limit == IF routine = ERoutine.eSingleGlimmer THEN 100 ELSE 1
                        ok    == ValidSpeed(At(ints, 6)) /\ At(ints, 7) <= limit
                        flag  == IF At(ints, 7) /= 0 THEN 1 ELSE 0
                        m1    == IF ~ok THEN m
                                 ELSE IF routine = ERoutine.eSingleFade
                                 THEN IF At(ints, 7) /= color.m.k.fade_param
                                      THEN [color.m EXCEPT !.k.fade_param = flag,
                                                           !.k.reset_counter = TRUE]
                                      ELSE color.m
                                 ELSE IF routine = ERoutine.eSingleSawtoothFade
                                 THEN IF At(ints, 7) /= color.m.k.sawtooth_param
                                      THEN [color.m EXCEPT !.k.sawtooth_param = flag,
                                                           !.k.reset_counter = TRUE]
                                      ELSE color.m
                                 ELSE IF At(ints, 7) /= color.m.k.single_glimmer_param
                                      THEN [color.m EXCEPT
                                              !.k.single_glimmer_param = At(ints, 7),
                                              !.k.reset_counter = TRUE]
                                      ELSE color.m
                    IN  [none EXCEPT !.m = ResetIf(m1, routine /= m.k.current_routine),
                                     !.isValid = ok /\ color.success,
                                     !.speedValue = At(ints, 6)]
               ELSE none
          [] routine \in {ERoutine.eMultiGlimmer, ERoutine.eMultiBars} ->
               IF size = 6
               THEN LET speed == At(ints, 4)
                        limit == IF routine = ERoutine.eMultiGlimmer THEN 100 ELSE 10
                        ok    == ValidSpeed(speed) /\ At(ints, 5) <= limit
                        m1    == IF ~ok THEN m
                                 ELSE IF routine = ERoutine.eMultiGlimmer
                                 THEN IF At(ints, 5) /= m.k.multi_glimmer_param
                                      THEN [m EXCEPT !.k.multi_glimmer_param = At(ints, 5),
                                                     !.k.reset_counter = TRUE]
                                      ELSE m
                                 ELSE IF At(ints, 5) /= m.k.multi_bars_param
                                      THEN [m EXCEPT !.k.multi_bars_param = At(ints, 5),
                                                     !.k.reset_counter = TRUE]
                                      ELSE m
                    IN  [m |-> ResetIf(m1, ValidSpeed(speed)
                                             /\ (At(ints, 3) /= m.k.current_palette
                                                   \/ routine /= m.k.current_routine)),
                         isValid |-> TRUE, palette |-> At(ints, 3), speedValue |-> speed]
               ELSE none
          [] routine \in {ERoutine.eMultiFade, ERoutine.eMultiRandomSolid,
                          ERoutine.eMultiRandomIndividual} ->
               IF size = 5
               THEN LET speed == At(ints, 4)
                    IN  [m |-> ResetIf(m, ValidSpeed(speed)
                                            /\ (At(ints, 3) /= m.k.current_palette
                                                  \/ routine /= m.k.current_routine)),
                         isValid |-> ValidSpeed(speed), palette |-> At(ints, 3),
                         speedValue |-> speed]
               ELSE none
          [] OTHER -> none

\* "if the packet was valid, do some final checks"
RoutineStore(m, routine, palette, speedValue) ==
    LET m1 == IF ~Addressed(m) THEN m
              ELSE IF routine = ERoutine.eSingleSolid
              THEN [ResetIf(m, routine /= m.k.current_routine)
                      EXCEPT !.k.current_routine = routine]
              ELSE IF ValidSpeed(speedValue)
              THEN [m EXCEPT !.k.update_speed = speedValue,
                             !.k.current_routine = routine,
                             !.k.current_palette =
                                 IF routine > ERoutine.eSingleSawtoothFade
                                 THEN palette ELSE @]
              ELSE m
        m2 == IF ~Addressed_2(m1) THEN m1
              ELSE IF routine = ERoutine.eSingleSolid
              THEN [ResetIf(m1, routine /= m1.k.current_routine_2)
                      EXCEPT !.k.current_routine_2 = routine]
              ELSE IF ValidSpeed(speedValue)
              THEN [m1 EXCEPT !.k.update_speed_2 = speedValue,
                              !.k.current_routine_2 = routine,
                              !.k.current_palette_2 =
                                  IF routine > ERoutine.eSingleSawtoothFade
                                  THEN palette ELSE @]
              ELSE m1
    IN  IF m2.k.reset_counter
        THEN [m2 EXCEPT !.k.loop_counter = 0,
                        !.k.should_update_no_speed = IF Addressed(m2) THEN TRUE ELSE @,
                        !.k.should_update_2_no_speed = IF Addressed_2(m2) THEN TRUE ELSE @]
        ELSE m2

routineParser(m, ints, currentSuccess) ==
    IF Len(ints) > 2
         /\ At(ints, 2) < ERoutine.eRoutine_MAX
         /\ At(ints, 1) <= DEFAULT_HW_INDEX + DeviceCount(m.k) - 1
    THEN With(RoutineSwitch([m EXCEPT !.k.received_hardware_index = U8(At(ints, 1)),
                                      !.k.reset_counter = FALSE], ints), LAMBDA sw :
           IF sw.isValid
           THEN [success |-> TRUE,
                 m |-> RoutineStore(sw.m, At(ints, 2), sw.palette, sw.speedValue)]
           ELSE [success |-> currentSuccess, m |-> sw.m])
    ELSE [success |-> currentSuccess, m |-> m]

\* parsePacket(header): the machine it leaves and its result
parsePacket(m, ints) ==
    LET header == At(ints, 0)
        size   == Len(ints)
        fail   == [success |-> FALSE, m |-> m]
        to(i)  == [m EXCEPT !.k.received_hardware_index = U8(At(ints, i))]
    IN  CASE header = EPacketHeader.eOnOffChange ->
               IF size = 3
               THEN LET m1 == IF ~Addressed(to(1)) THEN to(1)
                              ELSE IF At(ints, 2) = 0
                              THEN [to(1) EXCEPT !.r = turnOff(m.r)]
                              ELSE IF At(ints, 2) = 1
                              THEN [to(1) EXCEPT !.k.loop_counter = 0, !.r = turnOn(m.r)]
                              ELSE to(1)
                    IN  [success |-> TRUE,
                         m |-> IF ~Addressed_2(m1) THEN m1
                               ELSE IF At(ints, 2) = 0
                               THEN [m1 EXCEPT !.r2 = turnOff(m.r2)]
                               ELSE IF At(ints, 2) = 1
                               THEN [m1 EXCEPT !.k.loop_counter = 0, !.r2 = turnOn(m.r2)]
                               ELSE m1]
               ELSE fail
          [] header = EPacketHeader.eModeChange -> routineParser(m, ints, FALSE)
          [] header = EPacketHeader.eCustomArrayColorChange ->
               IF size = 6 /\ At(ints, 2) >= 0 /\ At(ints, 2) < ERoutine.eRoutine_MAX
               THEN LET m1 == IF m.k.current_routine > ERoutine.eSingleSawtoothFade
                                   /\ m.k.current_palette = EPalette.eCustom
                              THEN [to(1) EXCEPT !.k.loop_counter = 0] ELSE to(1)
                        m2 == IF Addressed(m1)
                              THEN [m1 EXCEPT !.r = setColor(m.r, At(ints, 2), At(ints, 3),
                                                             At(ints, 4), At(ints, 5))]
                              ELSE m1
                    IN  [success |-> TRUE,
                         m |-> IF Addressed_2(m2)
                               THEN [m2 EXCEPT !.r2 = setColor(m.r2, At(ints, 2), At(ints, 3),
                                                               At(ints, 4), At(ints, 5))]
                               ELSE m2]
               ELSE fail
          [] header = EPacketHeader.eBrightnessChange ->
               IF size = 3
               THEN LET param == constrain(At(ints, 2), 0, 100)
                        m1    == IF Addressed(to(1)) /\ param /= m.r.m_bright_level
                                 THEN [to(1) EXCEPT !.k.should_update_no_speed = TRUE,
                                                    !.r = SetBrightness(m.r, param)]
                                 ELSE to(1)
                    IN  [success |-> TRUE,
                         \* the second device tests `param != routines.brightness()`,
                         \* the brightness of the first device
                         m |-> IF Addressed_2(m1) /\ param /= m1.r.m_bright_level
                               THEN [m1 EXCEPT !.k.should_update_2_no_speed = TRUE,
                                               !.r2 = SetBrightness(m.r2, param)]
                               ELSE m1]
               ELSE fail
          [] header = EPacketHeader.eIdleTimeoutChange ->
               IF size = 3
               THEN LET m1 == IF Addressed(to(1))
                              THEN [to(1) EXCEPT !.k.idle_timeout = At(ints, 2) * 60 * 1000]
                              ELSE to(1)
                    IN  [success |-> TRUE,
                         m |-> IF Addressed_2(m1)
                               THEN [m1 EXCEPT !.k.idle_timeout_2 = At(ints, 2) * 60 * 1000]
                               ELSE m1]
               ELSE fail
          [] header = EPacketHeader.eCustomColorCountChange ->
               IF size = 3 /\ At(ints, 2) > 1
               THEN LET m1 == IF Addressed(to(1))
                              THEN [to(1) EXCEPT !.r = setCustomColorCount(m.r, At(ints, 2))]
                              ELSE to(1)
                    IN  [success |-> TRUE,
                         m |-> IF Addressed_2(m1)
                               THEN [m1 EXCEPT
                                       !.r2 = setCustomColorCount(m.r2, At(ints, 2))]
                               ELSE m1]
               ELSE fail
          [] header = EPacketHeader.eStateUpdateRequest ->
               IF size = 1
               THEN [success |-> FALSE,
                     m |-> [m EXCEPT !.k.skip_echo = TRUE,
                                     !.out = Append(@, buildStateUpdatePacket(m))]]
               ELSE fail
          [] header = EPacketHeader.eCustomArrayUpdateRequest ->
               IF size = 1
               THEN [success |-> FALSE,
                     m |-> [m EXCEPT !.k.skip_echo = TRUE,
                                     !.out = IF m.k.IS_MULTI
                                             THEN @ \o << buildCustomArrayUpdatePacket(m),
                                                          buildCustomArrayUpdatePacket_2(m) >>
                                             ELSE Append(@, buildCustomArrayUpdatePacket(m))]]
               ELSE fail
          [] OTHER -> fail

\* One pass of the body of `while (messagePtr != 0)`, for the message that
\* messagePtr points at.
ParseMessage(m, message) ==
    With(IF m.k.skip_echo THEN m
         ELSE [m EXCEPT !.k.temp_packet = message, !.k.echo_message = message],
         LAMBDA m1 :
    With(delimitedStringToIntArray(m1.k.temp_packet), LAMBDA ints :
    With([m1 EXCEPT !.k.temp_packet = ParsedString(@),
                    !.undefined = @ \/ Len(ints) > max_number_of_ints], LAMBDA m2 :
      IF Len(ints) > 0 /\ At(ints, 0) < EPacketHeader.ePacketHeader_MAX
      THEN With(parsePacket(m2, ints), LAMBDA res :
             IF res.success
             THEN [res.m EXCEPT
                     !.k.last_message_time = m.millis,
                     !.applied = Append(@, ints),
                     !.k.echo_message =
                         IF res.m.k.skip_echo THEN @ ELSE @ \o << message_delimiter >>,
                     !.k.should_echo = IF res.m.k.skip_echo THEN @ ELSE TRUE]
             ELSE res.m)
      ELSE m2)))

\* The while loop over the messages of current_packet.  messagePtr is the
\* i-th "&"-token of the packet, 0 for a null pointer.  strtok keeps one
\* position: once delimitedStringToIntArray has run its strtok calls over
\* temp_packet to the end, strtok(0, "&") finds no further token, so
\* `inPacket` (strtok's position is still in current_packet) holds for the
\* first strtok(0, "&") only.
RECURSIVE ParseMessages(_, _, _, _)
ParseMessages(m, messages, i, inPacket) ==
    IF i = 0 THEN m
    ELSE ParseMessages(ParseMessage(m, messages[i]), messages,
                       IF inPacket /\ i < Len(messages) THEN i + 1 ELSE 0, FALSE)

\* `if (packetReceived) { ... }` of loop().  When checkIfPacketIsValid reads
\* through a null pointer its result is either one: nullRead.
ReceivePacket(m, current_packet, nullRead) ==
    With(checkIfPacketIsValid(current_packet), LAMBDA check :
    With([m EXCEPT !.k.echo_message = << >>,
                   !.k.skip_echo = FALSE,
                   !.k.should_echo = FALSE,
                   !.k.should_update_no_speed = FALSE,
                   !.undefined = @ \/ check.undefined], LAMBDA m1 :
      IF ~(IF check.undefined THEN nullRead ELSE check.valid) THEN m1
      ELSE With(strtok(check.packet, message_delimiter), LAMBDA messages :
           With(ParseMessages(m1, messages, IF messages = << >> THEN 0 ELSE 1, TRUE),
                LAMBDA m2 :
             IF ~m2.k.skip_echo /\ m2.k.should_echo THEN echoPacket(m2) ELSE m2))))

\* changeRoutine(current_routine): the routine function it calls, as a call
\* of the engine of RoutinesRGB.cpp; fn is "none" for the default case
changeRoutineCall(k, r) ==
    LET fn == CASE k.current_routine = ERoutine.eSingleSolid   -> "singleSolid"
                [] k.current_routine = ERoutine.eSingleBlink   -> "singleBlink"
                [] k.current_routine = ERoutine.eSingleWave    -> "singleWave"
                [] k.current_routine = ERoutine.eSingleGlimmer -> "singleGlimmer"
                [] k.current_routine = ERoutine.eSingleFade ->
                     IF k.fade_param = 1 THEN "singleSineFade" ELSE "singleLinearFade"
                [] k.current_routine = ERoutine.eSingleSawtoothFade ->
                     IF k.sawtooth_param = 1 THEN "singleSawtoothFadeIn"
                     ELSE "singleSawtoothFadeOut"
                [] k.current_routine = ERoutine.eMultiGlimmer  -> "multiGlimmer"
                [] k.current_routine = ERoutine.eMultiFade     -> "multiFade"
                [] k.current_routine = ERoutine.eMultiRandomSolid -> "multiRandomSolid"
                [] k.current_routine = ERoutine.eMultiRandomIndividual ->
                     "multiRandomIndividual"
                [] k.current_routine = ERoutine.eMultiBars     -> "multiBarsMoving"
                [] OTHER -> "none"
    IN  [fn |-> fn,
         red |-> r.m_main_color.red, green |-> r.m_main_color.green,
         blue |-> r.m_main_color.blue,
         colorGroup |-> k.current_palette,
         param |-> CASE fn = "singleGlimmer"   -> k.single_glimmer_param
                     [] fn = "multiGlimmer"    -> k.multi_glimmer_param
                     [] fn = "multiBarsMoving" -> k.multi_bars_param
                     [] OTHER -> 0,
         shouldUpdate |-> TRUE]

\* #if IS_MULTI: changeRoutine_2(current_routine_2).  The sawtooth fade is
\* called with routines.mainColor(), the color of the first device.
changeRoutineCall_2(k, r, r2) ==
    LET k2 == [k EXCEPT !.current_routine = k.current_routine_2,
                        !.current_palette = k.current_palette_2,
                        !.single_glimmer_param = k.single_glimmer_param_2,
                        !.multi_glimmer_param = k.multi_glimmer_param_2,
                        !.sawtooth_param = k.sawtooth_param_2,
                        !.fade_param = k.fade_param_2,
                        !.multi_bars_param = k.multi_bars_param_2]
    IN  changeRoutineCall(k2, IF k.current_routine_2 = ERoutine.eSingleSawtoothFade
                              THEN r ELSE r2)

\* a routine function called through the engine of the sketch: nothing is
\* drawn while the engine is off
changeRoutine(r, call, rnd) ==
    IF call.fn = "none" \/ ~r.m_is_on THEN r ELSE callRoutine(r, call, rnd)

\* the raw outputs of the generator a call can consume
LedDraws(call, entropy) ==
    LET any == call.fn \in {"multiRandomSolid", "multiRandomIndividual"}
                 /\ U16(call.colorGroup) = EColorGroup.eAll
    IN  [ percent : IF call.fn \in {"singleGlimmer", "multiGlimmer"} \/ any
                    THEN entropy ELSE {0},
          index   : IF call.fn \in MultiRoutines \ {"multiFade", "multiBarsSolid",
                                                    "multiBarsMoving"}
                    THEN entropy ELSE {0},
          dim     : IF call.fn = "multiGlimmer" \/ any THEN entropy ELSE {0},
          scale   : IF call.fn \in {"singleGlimmer", "multiGlimmer"}
                    THEN entropy ELSE {0} ]

Draws(call, entropy, ledCount) ==
    IF call.fn = "none" THEN {[palette |-> << >>, led |-> << >>]}
    ELSE [ palette : IF call.fn \in MultiRoutines
                          /\ ClampGroup(call.colorGroup) = EColorGroup.eAll
                     THEN RandomPalettes(entropy)
                     ELSE {Fill(PaletteCapacity, Black)},
           led     : IF call.fn = "multiRandomSolid"
                     THEN {[i \in 1..ledCount |-> d] : d \in LedDraws(call, entropy)}
                     ELSE [1..ledCount -> LedDraws(call, entropy)] ]

(***************************************************************************)
(* The sender: the packets the environment puts on the serial line         *)
(***************************************************************************)
\* the payload of a packet: every message followed by "&"
RECURSIVE Payload(_)
Payload(messages) ==
    IF messages = << >> THEN << >>
    ELSE JoinValues(Head(messages)) \o << message_delimiter >> \o Payload(Tail(messages))

\* a payload with the checksum `crc` (a string) attached
WithChecksum(payload, crc) == payload \o << crc_delimiter >> \o crc \o << message_delimiter >>

\* a well-formed packet, as Serial.readBytesUntil(';') delivers it
Packet(messages) ==
    WithChecksum(Payload(messages), ultoa(crcCalculator(Payload(messages))))

\* Serial.readBytesUntil(';', ..) on a string written to the line
readBytesUntil(line) ==
    SubSeq(line, 1, FirstFrom(line, 1, {packet_delimiter}, TRUE) - 1)

\* Serial.readBytesUntil(';', buffer, length) on the bytes of the line: the
\* bytes before the first ";", at most `length` of them
readBytes(line, length) == SubSeq(readBytesUntil(line), 1, Min(Len(readBytesUntil(line)), length))

\* the bytes readBytesUntil leaves on the line: those behind the ";" it
\* consumed, or those behind the `length` bytes it stored
unread(line, length) ==
    IF Len(readBytesUntil(line)) <= length
    THEN SubSeq(line, Len(readBytesUntil(line)) + 2, Len(line))
    ELSE SubSeq(line, length + 1, Len(line))

\* char current_packet[max_packet_size] of the build
max_packet_size(k) == IF k.IS_MULTI THEN 75 ELSE 200

\* what a string function finds behind the last byte of current_packet when
\* the buffer holds no NUL: the NUL of a zeroed neighbour, or other bytes
BufferOverrun == { << >>, << 49 >>, << crc_delimiter >> }

\* packet with its i-th byte replaced by b
ReplaceAt(packet, i, b) == [packet EXCEPT ![i] = b]

\* what the receiver reads when one byte of the payload of `packet` arrives
\* as another value on the line: one packet, or the two pieces around a ";"
Corruptions(packet, positions, bytes) ==
    UNION { IF b = packet[i] THEN {}
            ELSE IF b = packet_delimiter
            THEN {SubSeq(packet, 1, i - 1), SubSeq(packet, i + 1, Len(packet))} \ {<< >>}
            ELSE {ReplaceAt(packet, i, b)}
          : i \in positions, b \in bytes }

(***************************************************************************)
(* Bounds                                                                  *)
(***************************************************************************)
\* the number of LEDs of the strip (LED_COUNT of the sketches)
LED_COUNT == 4
\* the passes of loop() that are followed
MaxLoops == 4

(***************************************************************************)
(* The packets of the scenarios                                            *)
(***************************************************************************)
\* mode changes, in range and out of range
ModeMessages ==
    { << 1, 1, 6, 0, 100, 150 >>,          \* multi glimmer, percent 150
      << 1, 1, 6, 0, 250, 50 >>,           \* multi glimmer, speed 250
      << 1, 1, 10, 0, 100, 11 >>,          \* multi bars, bar size 11
      << 1, 1, 3, 0, 127, 0, 250, 20 >>,   \* single glimmer, speed 250
      << 1, 1, 3, 0, 127, 0, 100, 101 >>,  \* single glimmer, percent 101
      << 1, 1, 3, 9, 9, 9, 100, 101 >>,    \* the same, with another color
      << 1, 1, 1, 0, 127, 0, 201 >>,       \* single blink, speed 201
      << 1, 1, 8, 0, 201 >>,               \* multi random solid, speed 201
      << 1, 1, 6, 0, 100, 20 >>,           \* multi glimmer, in range
      << 1, 1, 1, 255, 0, 0, 200 >>,       \* single blink, in range
      << 1, 1, 0, 255, 0, 0 >> }           \* single solid
ModeFrames == { Packet(<< message >>) : message \in ModeMessages }

\* lists of messages sent as one packet
Batches ==
    { << << 3, 1, 40 >> >>,
      << << 3, 1, 40 >>, << 3, 1, 80 >> >>,
      << << 3, 1, 40 >>, << 3, 1, 60 >>, << 3, 1, 80 >> >>,
      << << 4, 1, 30 >>, << 5, 1, 3 >> >>,
      << << 3, 1, 40 >>, << 9, 9 >> >>,
      << << 6 >>, << 3, 1, 80 >> >>,
      << << 3, 1, 80 >>, << 6 >> >>,
      << << 7 >> >>,
      << << 0, 1, 0 >>, << 0, 1, 1 >> >>,
      << << 2, 1, 0, 9, 9, 9 >>, << 1, 1, 9, 0, 200 >> >> }
BatchFrames == { Packet(messages) : messages \in Batches }

\* a packet of one message and a packet of two
SoundFrame  == Packet(<< << 3, 1, 40 >> >>)
SoundFrame2 == Packet(<< << 3, 1, 40 >>, << 4, 1, 30 >> >>)

\* SoundFrame with one byte of its payload replaced: by every character
\* checkIfPacketIsValid lets through, by the packet delimiter, by NUL and
\* by other characters it does not let through
LineBytes ==
    { c \in 0..255 : IsPacketChar(c) } \cup { packet_delimiter, 0, 32, 65, 120, 255 }
PayloadBytes == 1..(Len(Payload(<< << 3, 1, 40 >> >>)))
DamagedFrames == Corruptions(SoundFrame, PayloadBytes, LineBytes)

\* packets whose checksum does not match, or with no "#" or more than one
BadChecksumFrames ==
    { WithChecksum(Payload(<< << 3, 1, 40 >> >>), itoa(738581007)),
      WithChecksum(Payload(<< << 3, 1, 40 >> >>), itoa(0)),
      WithChecksum(Payload(<< << 3, 1, 60 >>, << 4, 1, 30 >> >>),
                   ultoa(crcCalculator(Payload(<< << 3, 1, 40 >>, << 4, 1, 30 >> >>)))),
      WithChecksum(Payload(<< << 1, 1, 0, 255, 0, 0 >> >>), << 49, 50, 51 >>) }
HashCountFrames ==
    { Payload(<< << 3, 1, 40 >> >>),
      Payload(<< << 3, 1, 40 >>, << 4, 1, 30 >> >>),
      SoundFrame \o SubSeq(SoundFrame, 8, Len(SoundFrame)),
      \* every message with a checksum of its own
      SoundFrame \o Packet(<< << 4, 1, 30 >> >>) }

\* packets of two messages where one message holds a character that is
\* not allowed, the checksum being that of the payload as sent; the
\* messages of the packet and the damaged one are kept with the packet
SpoiledBatches ==
    { [messages |-> << << 3, 1, 40 >>, << 4, 1, 30 >> >>, spoiled |-> 1],
      [messages |-> << << 3, 1, 40 >>, << 4, 1, 30 >> >>, spoiled |-> 2],
      [messages |-> << << 5, 1, 3 >>, << 3, 1, 80 >> >>, spoiled |-> 1] }
\* the payload of b, an "x" replacing the first byte of the spoiled message
SpoiledPayload(b) ==
    LET first == Payload(SubSeq(b.messages, 1, b.spoiled - 1))
    IN  ReplaceAt(Payload(b.messages), Len(first) + 1, 120)
SpoiledFrame(b) ==
    WithChecksum(SpoiledPayload(b), ultoa(crcCalculator(SpoiledPayload(b))))
SpoiledFrames == { SpoiledFrame(b) : b \in SpoiledBatches }

\* changes of the idle timeout
TimeoutFrames ==
    { Packet(<< << 4, 1, 1 >> >>), Packet(<< << 4, 1, 0 >> >>), SoundFrame,
      Packet(<< << 6 >> >>) }

\* the messages the sender puts on the line of the multi build
MultiBuildBatches ==
    { << << 0, 2, 0 >> >>, << << 0, 0, 1 >> >>,
      << << 1, 2, 0, 10, 20, 30 >> >>, << << 1, 3, 0, 10, 20, 30 >> >>,
      << << 2, 0, 0, 10, 20, 30 >> >>, << << 2, 2, 1, 10, 20, 30 >> >>,
      << << 3, 0, 40 >> >>, << << 3, 2, 40 >> >>, << << 3, 1, 150 >> >>,
      << << 3, 3, 70 >> >>,
      << << 4, 1, 1 >> >>, << << 4, 2, 1 >> >>, << << 5, 0, 3 >> >>,
      << << 6 >> >>, << << 7 >> >> }
MultiBuildIdleBatches ==
    { << << 4, 1, 1 >> >>, << << 4, 2, 1 >> >>, << << 4, 0, 0 >> >>, << << 3, 2, 40 >> >>,
      << << 6 >> >> }

\* frames longer than the receive buffer of the multi build (75 bytes), and a
\* frame that fits to follow them:
\*   a packet of thirteen messages;
\*   75 bytes of a payload, then a whole packet;
\*   a packet of exactly 75 bytes, then other bytes
LongPacket == Packet(Fill(13, << 0, 1, 1 >>))
PadBytes == SubSeq(Payload(Fill(13, << 0, 1, 1 >>)), 1, 75)
LateCommand == Packet(<< << 3, 1, 40 >> >>)
ExactFitPackets ==
    { packet \in { Packet(Fill(8, << 3, 1, 40 >>) \o << << 3, 1, level >> >>) :
                     level \in {41, 42, 43} } : Len(packet) = 75 }
LongFrames ==
    {LongPacket, PadBytes \o LateCommand}
      \cup { packet \o << 48, value_delimiter, 49 >> : packet \in ExactFitPackets }
ShortFrame == Packet(<< << 3, 1, 70 >> >>)

\* messages for a device whose routine is paused (speed 0) or slow: mode
\* changes with speed 0 and with speed 5, brightness changes
PausedMessages ==
    { << 1, 1, 1, 255, 0, 0, 0 >>,    \* single blink, speed 0
      << 1, 1, 8, 0, 0 >>,            \* multi random solid, speed 0
      << 1, 1, 1, 255, 0, 0, 5 >>,    \* single blink, speed 5
      << 3, 1, 40 >>,                 \* brightness 40
      << 3, 1, 50 >> }                \* brightness 50, the default

\* mode changes for one device of the multi build: single blink with the
\* main color of setup() and with another, multi fade with two palettes
DeviceModeMessages ==
    { << 1, device, 1, 0, 127, 0, 100 >> : device \in 1..2 }
      \cup { << 1, 2, 1, 9, 9, 9, 100 >>, << 1, 2, 7, 1, 100 >>, << 1, 2, 7, 2, 100 >>,
             << 1, 1, 7, 1, 100 >> }

\* mode changes that pause one device of the multi build (multi fade, speed 0)
DevicePauseMessages == { << 1, device, 7, 1, 0 >> : device \in 1..2 }

\* mode changes with a palette or a routine at the ends of the enumerations
\* and beyond them
PaletteMessages ==
    { << 1, 1, 7, palette, 100 >> : palette \in {-1, 16, EPalette.ePalette_MAX, 99} }
      \cup { << 1, 1, routine, 1, 100 >> : routine \in {-1, ERoutine.eRoutine_MAX} }

\* a mode change to multi fade with the custom palette, and changes of the
\* custom colors 0 and 1
CustomColorMessages ==
    { << 1, 1, 7, 0, 100 >>, << 2, 1, 0, 9, 9, 9 >>, << 2, 1, 1, 200, 100, 50 >> }

\* one message of every command header, for a hardware index no device has
UnaddressedMessages ==
    { << 0, 2, 0 >>, << 1, 2, 0, 255, 0, 0 >>, << 1, 5, 8, 0, 100 >>,
      << 2, 2, 0, 9, 9, 9 >>, << 3, 2, 40 >>, << 4, 2, 1 >>, << 5, 2, 3 >> }
\* mode changes that carry a color: single solid and single blink
ColorMessages ==
    { << 1, 1, 0, 300, 0, 0 >>, << 1, 1, 0, 0, 127, 256 >>, << 1, 1, 0, -1, 300, 256 >>,
      << 1, 1, 0, 10, 20, 30 >>, << 1, 1, 1, 10, -20, 30, 100 >> }

\* the packets a scenario can put on the line
\* messages of as many values as packet_int_array holds, and of one more
ManyValues == { Fill(n, 1) : n \in {max_number_of_ints, max_number_of_ints + 1} }

Inbox(scenario) ==
    CASE scenario = "modes"    -> ModeFrames
      [] scenario = "batches"  -> BatchFrames
      [] scenario = "damaged"  -> DamagedFrames
      [] scenario = "rejected" ->
           BadChecksumFrames \cup HashCountFrames \cup SpoiledFrames
             \cup {SoundFrame, SoundFrame2}
      [] scenario = "timeout"  -> TimeoutFrames
      [] scenario = "edges"    ->
           { Packet(<< message >>) : message \in UnaddressedMessages \cup ColorMessages }
      [] scenario = "paused"   -> { Packet(<< message >>) : message \in PausedMessages }
      [] scenario = "multi"      -> { Packet(messages) : messages \in MultiBuildBatches }
      [] scenario = "multi idle" -> { Packet(messages) : messages \in MultiBuildIdleBatches }
      [] scenario = "device modes" ->
           { Packet(<< message >>) : message \in DeviceModeMessages }
      [] scenario = "device pause" ->
           { Packet(<< message >>) : message \in DevicePauseMessages }
      [] scenario = "palettes"   -> { Packet(<< message >>) : message \in PaletteMessages }
      [] scenario = "custom colors" ->
           { Packet(<< message >>) : message \in CustomColorMessages }
      [] scenario = "long"       -> LongFrames \cup {ShortFrame}
      [] scenario = "values"     -> { Packet(<< message >>) : message \in ManyValues }
      [] OTHER -> {}

(***************************************************************************)
(* The state                                                               *)
(***************************************************************************)
VARIABLES
    env,        \* the scenario: what can be sent, the clock steps, the
                \* outputs of the random generator, the routine calls
    sketch,     \* the globals of CorlumaSample.ino
    routines,   \* the RoutinesRGB object
    routines_2, \* the second RoutinesRGB object of the multi sample (IS_MULTI)
    driver,     \* the colors last given to the LED driver by updateLEDs
    serial,     \* what the last pass of loop() wrote to Serial
    now,        \* millis()
    passes,     \* the passes of loop() so far
    received,   \* the packet the last pass of loop() read, << >> for none
    applied,    \* the messages the last pass parsed with success, as ints
    undefined,  \* a pass relied on undefined behaviour
    called,     \* the routine function and group of the last routine call
    entered,    \* the engine as the last routine call left preProcess
    unscaled,   \* the buffer the routine calls define, never dimmed
    heard,      \* per device, the time of the last pass that applied a
                \* message addressed to it
    updated,    \* per device, whether the last pass of loop() called the
                \* routine of the device
    op,         \* the operation that led to the state
    args        \* the arguments of that operation, when the properties need them

vars == << env, sketch, routines, routines_2, driver, serial, now, passes, received,
           applied, undefined, called, entered, unscaled, heard, updated, op, args >>

\* the message is addressed to the device of index d: to d or to all (0)
AddressedTo(ints, d) == Len(ints) >= 2 /\ U8(ints[2]) \in {d, 0}

\* heard after a pass at time millis that applied the messages
Heard(messages, millis) ==
    [d \in 1..2 |-> IF \E i \in 1..Len(messages) : AddressedTo(messages[i], d)
                    THEN millis ELSE heard[d]]

\* the globals of the sketch after setup()
SketchGlobals ==
    [ current_routine |-> ERoutine.eSingleGlimmer,
      current_palette |-> EPalette.eCustom,
      update_speed |-> DEFAULT_SPEED,
      should_update_no_speed |-> FALSE,
      idle_timeout |-> DEFAULT_TIMEOUT * 60 * 1000,
      last_message_time |-> 0,
      loop_counter |-> 0,
      single_glimmer_param |-> GLIMMER_PERCENT,
      multi_glimmer_param |-> GLIMMER_PERCENT,
      sawtooth_param |-> 0,
      fade_param |-> 0,
      multi_bars_param |-> BAR_SIZE,
      reset_counter |-> FALSE,
      skip_echo |-> FALSE,
      should_echo |-> FALSE,
      echo_message |-> << >>,
      temp_packet |-> << >>,
      received_hardware_index |-> 0,
      \* the build flag, and the globals of #if IS_MULTI
      IS_MULTI |-> FALSE,
      current_routine_2 |-> ERoutine.eSingleGlimmer,
      current_palette_2 |-> EPalette.eCustom,
      update_speed_2 |-> DEFAULT_SPEED,
      should_update_2_no_speed |-> FALSE,
      idle_timeout_2 |-> DEFAULT_TIMEOUT * 60 * 1000,
      single_glimmer_param_2 |-> GLIMMER_PERCENT,
      multi_glimmer_param_2 |-> GLIMMER_PERCENT,
      sawtooth_param_2 |-> 0,
      fade_param_2 |-> 0,
      multi_bars_param_2 |-> BAR_SIZE ]

\* no routine function has been called
NoCall == [fn |-> "none", colorGroup |-> 0, clean |-> TRUE]

\* the scenarios of the sketch: the packets, how many of them arrive, the
\* time a pass of loop() takes, the outputs of random()
Scenarios ==
    { [name |-> "modes",    budget |-> 2, steps |-> {DELAY_VALUE}, entropy |-> {99}],
      [name |-> "batches",  budget |-> 2, steps |-> {DELAY_VALUE}, entropy |-> {99}],
      [name |-> "damaged",  budget |-> 1, steps |-> {DELAY_VALUE}, entropy |-> {99}],
      [name |-> "rejected", budget |-> 2, steps |-> {DELAY_VALUE}, entropy |-> {99}],
      [name |-> "timeout",  budget |-> 2,
       steps |-> {DELAY_VALUE, MillisPerMinute, 2 * MillisPerMinute}, entropy |-> {99}],
      [name |-> "edges",    budget |-> 2, steps |-> {DELAY_VALUE}, entropy |-> {99}],
      [name |-> "paused",   budget |-> 2, steps |-> {DELAY_VALUE}, entropy |-> {99}],
      [name |-> "values",   budget |-> 1, steps |-> {DELAY_VALUE}, entropy |-> {99}],
      [name |-> "palettes", budget |-> 2, steps |-> {DELAY_VALUE}, entropy |-> {99}],
      [name |-> "custom colors", budget |-> 2, steps |-> {DELAY_VALUE},
       entropy |-> {99}] }

\* setup() of the build: one engine for the strip, or with IS_MULTI two
\* engines for one half of the strip each
Setup(scenario, multi) ==
    /\ env = [name |-> scenario.name, budget |-> scenario.budget,
              steps |-> scenario.steps, entropy |-> scenario.entropy,
              line |-> << >>, frame |-> << >>]
    /\ sketch = [SketchGlobals EXCEPT !.IS_MULTI = multi]
    /\ routines = setMainColor(RoutinesRGB(IF multi THEN LED_COUNT \div 2 ELSE LED_COUNT),
                               0, 127, 0)
    /\ routines_2 = setMainColor(RoutinesRGB(LED_COUNT \div 2), 0, 127, 0)
    /\ driver = Fill(LED_COUNT, Black)
    /\ serial = << >>
    /\ now = 0
    /\ passes = 0
    /\ received = << >>
    /\ applied = << >>
    /\ undefined = FALSE
    /\ called = NoCall
    /\ entered = routines
    /\ unscaled = Fill(LED_COUNT, Black)
    /\ heard = [d \in 1..2 |-> 0]
    /\ updated = [d \in 1..2 |-> FALSE]
    /\ op = "setup"
    /\ args = << >>

Init == \E scenario \in Scenarios : Setup(scenario, FALSE)

(***************************************************************************)
(* loop() of CorlumaSample.ino                                             *)
(***************************************************************************)
\* the machine when the packet, if any, has been handled
AfterPacket(current_packet, step, nullRead) ==
    LET m == [k |-> sketch, r |-> routines, r2 |-> routines_2, out |-> << >>,
              millis |-> now + step, applied |-> << >>, undefined |-> undefined]
    IN  IF current_packet /= << >> /\ current_packet[1] /= 0
        THEN ReceivePacket(m, current_packet, nullRead)
        ELSE m

\* whether this pass calls the routine
UpdateDue(k) ==
    IF k.update_speed = 0 THEN k.should_update_no_speed
    ELSE k.loop_counter % ((MAX_SPEED_VALUE + 5) - k.update_speed) = 0

\* #if IS_MULTI: whether this pass calls the routine of the second device
UpdateDue_2(k) ==
    IF k.update_speed_2 = 0 THEN k.should_update_2_no_speed
    ELSE k.loop_counter % ((MAX_SPEED_VALUE + 5) - k.update_speed_2) = 0

\* #if IS_MULTI: "update happens here for edge case handling",
\*   if (!(loop_counter % update_speed_2) || !(loop_counter % update_speed))
\* a remainder by 0 is undefined; the right operand of || is evaluated only
\* when the left one is false
EdgeUpdate(k) ==
    [ undefined |-> IF k.update_speed_2 = 0 THEN TRUE
                    ELSE k.loop_counter % k.update_speed_2 /= 0 /\ k.update_speed = 0,
      due |-> IF k.update_speed_2 = 0 THEN FALSE
              ELSE IF k.loop_counter % k.update_speed_2 = 0 THEN TRUE
              ELSE IF k.update_speed = 0 THEN FALSE
              ELSE k.loop_counter % k.update_speed = 0 ]

\* the idle timeout of loop(): whether a device is turned off
TimedOut(timeout, last_message_time, millis) ==
    timeout /= 0 /\ last_message_time + timeout < millis

\* the rest of the pass: the routine, the brightness, the LEDs, the timeout
Pass(current_packet, m, rnd, rnd_2) ==
    \E due \in {UpdateDue(m.k)}, due_2 \in {m.k.IS_MULTI /\ UpdateDue_2(m.k)} :
    \E drawn \in {IF due THEN changeRoutine(m.r, changeRoutineCall(m.k, m.r), rnd)
                  ELSE m.r},
       drawn_2 \in {IF due_2
                    THEN changeRoutine(m.r2, changeRoutineCall_2(m.k, m.r, m.r2), rnd_2)
                    ELSE m.r2} :
    \E dimmed \in {IF due THEN applyBrightness(drawn) ELSE m.r},
       dimmed_2 \in {IF due_2 THEN applyBrightness(drawn_2) ELSE m.r2},
       edge \in {EdgeUpdate(m.k)} :
      /\ sketch' = [m.k EXCEPT !.loop_counter = @ + 1]
      /\ routines' = IF TimedOut(m.k.idle_timeout, m.k.last_message_time, m.millis)
                     THEN turnOff(dimmed) ELSE dimmed
      /\ routines_2' = IF m.k.IS_MULTI
                            /\ TimedOut(m.k.idle_timeout_2, m.k.last_message_time, m.millis)
                       THEN turnOff(dimmed_2) ELSE dimmed_2
      /\ driver' = IF m.k.IS_MULTI
                   THEN IF edge.due THEN dimmed.buffer \o dimmed_2.buffer ELSE driver
                   ELSE IF due THEN dimmed.buffer ELSE driver
      /\ serial' = m.out
      /\ now' = m.millis
      /\ passes' = passes + 1
      /\ received' = current_packet
      /\ applied' = m.applied
      /\ heard' = Heard(m.applied, m.millis)
      /\ updated' = << due, due_2 >>
      /\ undefined' = (m.undefined \/ drawn.undefined \/ drawn_2.undefined
                         \/ (m.k.IS_MULTI /\ edge.undefined))
      /\ op' = "loop"
      /\ args' = << >>
      /\ UNCHANGED << called, entered, unscaled >>

\* the outputs of random() a pass can see
PassDraws(m) ==
    Draws(IF UpdateDue(m.k) /\ m.r.m_is_on THEN changeRoutineCall(m.k, m.r)
          ELSE [fn |-> "none"],
          env.entropy, m.r.m_LED_count)

PassDraws_2(m) ==
    Draws(IF m.k.IS_MULTI /\ UpdateDue_2(m.k) /\ m.r2.m_is_on
          THEN changeRoutineCall_2(m.k, m.r, m.r2)
          ELSE [fn |-> "none"],
          env.entropy, m.r2.m_LED_count)

\* a pass of loop() with nothing to read: Serial.available() is 0
LoopIdle ==
    /\ passes < MaxLoops
    /\ env.line = << >>
    /\ \E step \in env.steps :
       \E m \in {AfterPacket(<< >>, step, FALSE)} :
       \E rnd \in PassDraws(m), rnd_2 \in PassDraws_2(m) : Pass(<< >>, m, rnd, rnd_2)
    /\ UNCHANGED env

\* a pass of loop() that reads from the line.  The sender writes a frame and
\* its ";" when the line is empty; Serial.readBytesUntil(';', current_packet,
\* sizeof(current_packet)) takes the bytes up to the ";" or as many as the
\* buffer holds, and leaves the others on the line.  A buffer that is filled
\* has no NUL behind its last byte: the string functions read on, into
\* `overrun`.  A packet that starts with "D" takes the discovery branch of
\* loop(), which is left out.
LoopPacket ==
    /\ passes < MaxLoops
    /\ env.line /= << >> \/ env.budget > 0
    /\ \E frame \in IF env.line /= << >> THEN {env.frame} ELSE Inbox(env.name),
          step \in env.steps :
       \E line \in {IF env.line /= << >> THEN env.line
                    ELSE frame \o << packet_delimiter >>} :
       \E current_packet \in {readBytes(line, max_packet_size(sketch))} :
       \E overrun \in IF Len(current_packet) = max_packet_size(sketch)
                       THEN BufferOverrun ELSE {<< >>} :
         /\ current_packet /= << >>
         /\ current_packet[1] /= 68
         /\ \E nullRead \in IF checkIfPacketIsValid(current_packet \o overrun).undefined
                            THEN BOOLEAN ELSE {FALSE} :
            \E m \in {AfterPacket(current_packet \o overrun, step, nullRead)} :
            \E rnd \in PassDraws(m), rnd_2 \in PassDraws_2(m) :
              Pass(current_packet,
                   [m EXCEPT !.undefined =
                               @ \/ Len(current_packet) = max_packet_size(sketch)],
                   rnd, rnd_2)
         /\ env' = [env EXCEPT !.budget = IF env.line /= << >> THEN @ ELSE @ - 1,
                               !.frame = frame,
                               !.line = unread(line, max_packet_size(sketch))]

Next == LoopIdle \/ LoopPacket

Spec == Init /\ [][Next]_vars

(***************************************************************************)
(* The sample sketch of the engine: setup(), then loop() calling a routine *)
(* function, applyBrightness() and updateLEDs(); the setters may be called *)
(* between two passes.                                                     *)
(***************************************************************************)
\* a call of a routine function
Call(fn, colorGroup, param) ==
    [fn |-> fn, red |-> 200, green |-> 100, blue |-> 50, colorGroup |-> colorGroup,
     param |-> param, shouldUpdate |-> TRUE]

\* one call of every public routine function
AllCalls ==
    { Call("singleSolid", 0, 0), Call("singleBlink", 0, 0), Call("singleWave", 0, 1),
      Call("singleGlimmer", 0, 20), Call("singleLinearFade", 0, 4),
      Call("singleSineFade", 0, 4), Call("singleSawtoothFadeIn", 0, 4),
      Call("singleSawtoothFadeOut", 0, 4),
      Call("multiGlimmer", EColorGroup.eCustom, 20),
      Call("multiFade", EColorGroup.eCustom, 0),
      Call("multiRandomSolid", EColorGroup.eCustom, 0),
      Call("multiRandomIndividual", EColorGroup.eCustom, 0),
      Call("multiBarsSolid", EColorGroup.eCustom, 1),
      Call("multiBarsMoving", EColorGroup.eCustom, 1) }

\* calls that differ in their group only; 200 and -1 are not groups
GroupCalls ==
    { Call("multiRandomSolid", g, 0) : g \in {EColorGroup.eCustom, EColorGroup.eRGB,
                                              EColorGroup.eAll, 200, -1} }
      \cup { Call("multiBarsMoving", g, 1) : g \in {EColorGroup.eCustom, EColorGroup.eCMY} }
      \cup { Call("singleSolid", 0, 0) }

\* the calls of the scenarios with setters and with a generator that varies
SteadyCalls ==
    { Call("singleSolid", 0, 0), Call("singleBlink", 0, 0),
      Call("multiRandomSolid", EColorGroup.eCustom, 0),
      Call("singleSawtoothFadeOut", 0, 4) }
RandomCalls ==
    { Call("multiRandomSolid", EColorGroup.eCustom, 0),
      Call("multiRandomSolid", EColorGroup.eAll, 0),
      Call("multiRandomIndividual", EColorGroup.eRGB, 0) }
GlimmerCalls ==
    { Call("singleGlimmer", 0, 20), Call("multiGlimmer", EColorGroup.eRGB, 20),
      Call("singleSolid", 0, 0) }
      \cup { Call("singleGlimmer", 0, 0), Call("multiGlimmer", EColorGroup.eRGB, 0) }
\* single glimmer for every LED and for one in five, with a generator that
\* varies
DrawCalls == { Call("singleGlimmer", 0, 100), Call("singleGlimmer", 0, 20) }

\* singleSolid with every value of every channel, and with the main color
\* of setup()
SolidColors ==
    { MakeColor(v, 255 - v, v + 128) : v \in 0..255 } \cup { MakeColor(0, 127, 0) }
SolidCalls ==
    { [Call("singleSolid", 0, 0) EXCEPT !.red = c.red, !.green = c.green,
                                        !.blue = c.blue] : c \in SolidColors }

\* the routine functions that take a tunable, with 0 and with another value
TunableCalls ==
    { Call(fn, EColorGroup.eCustom, param) :
        fn \in {"singleWave", "singleLinearFade", "singleSawtoothFadeOut",
                "multiBarsSolid"},
        param \in {0, 1} }
      \cup { Call("singleBlink", 0, 0) }

\* the linear and the sawtooth fades, with a long and a short fade
FadeRoutines == {"singleLinearFade", "singleSawtoothFadeIn", "singleSawtoothFadeOut"}
FadeCalls == { Call(fn, 0, param) : fn \in FadeRoutines, param \in {1, 4} }

EngineCalls(scenario) ==
    CASE scenario = "pairs"   -> AllCalls
      [] scenario = "brightness" -> SolidCalls
      [] scenario = "groups"  -> GroupCalls
      [] scenario = "setters" -> SteadyCalls
      [] scenario = "random"  -> RandomCalls
      [] scenario = "glimmer" -> GlimmerCalls
      [] scenario = "tunables" -> TunableCalls
      [] scenario = "draws"   -> DrawCalls
      [] scenario = "fades"   -> FadeCalls
      [] OTHER -> {}

\* the scenarios of the engine: the calls, how many operations are
\* followed, whether setters are called, the outputs of random(), the
\* arguments of brightness()
EngineScenarios ==
    { [name |-> "pairs",   budget |-> 3, setters |-> FALSE, entropy |-> {99},
       levels |-> {}, tunables |-> {}],
      [name |-> "groups",  budget |-> 3, setters |-> FALSE, entropy |-> {99},
       levels |-> {}, tunables |-> {}],
      [name |-> "setters", budget |-> MaxLoops, setters |-> TRUE, entropy |-> {99},
       levels |-> {25, 100, 101}, tunables |-> {}],
      [name |-> "random",  budget |-> 2, setters |-> FALSE, entropy |-> {0, 1},
       levels |-> {}, tunables |-> {}],
      [name |-> "glimmer", budget |-> 3, setters |-> FALSE, entropy |-> {0},
       levels |-> {}, tunables |-> {}],
      [name |-> "tunables", budget |-> 3, setters |-> FALSE, entropy |-> {99},
       levels |-> {}, tunables |-> {0, 1, 3, 255, 256}],
      [name |-> "draws", budget |-> 2, setters |-> FALSE, entropy |-> {0, 99},
       levels |-> {}, tunables |-> {}],
      [name |-> "fades", budget |-> 3, setters |-> FALSE, entropy |-> {99},
       levels |-> {}, tunables |-> {}] }

\* the state after setup() of the sample sketch
SetupEngine(scenario) ==
    /\ env = scenario
    /\ sketch = SketchGlobals
    /\ routines = SetBrightness(setMainColor(RoutinesRGB(LED_COUNT), 0, 127, 0), 50)
    /\ routines_2 = setMainColor(RoutinesRGB(LED_COUNT \div 2), 0, 127, 0)
    /\ driver = Fill(LED_COUNT, Black)
    /\ serial = << >>
    /\ now = 0
    /\ passes = 0
    /\ received = << >>
    /\ applied = << >>
    /\ undefined = FALSE
    /\ called = NoCall
    /\ entered = routines
    /\ unscaled = Fill(LED_COUNT, Black)
    /\ heard = [d \in 1..2 |-> 0]
    /\ updated = [d \in 1..2 |-> FALSE]
    /\ op = "setup"
    /\ args = << >>

InitEngine == \E scenario \in EngineScenarios : SetupEngine(scenario)

\* the routine function and the group of a call, for the next call to
\* compare: the group preProcess is given, clamped as preProcess clamps it
NoteCall(e, call) ==
    [fn |-> call.fn,
     colorGroup |-> IF call.fn \in SingleRoutines THEN e.m_current_group
                    ELSE ClampGroup(call.colorGroup),
     clean |-> TRUE]

\* a pass of loop(): the routine function, applyBrightness(), updateLEDs()
Tick ==
    /\ passes < env.budget
    /\ \E call \in EngineCalls(env.name) :
       \E rnd \in Draws(call, env.entropy, LED_COUNT) :
       \E p \in {enterRoutine(routines, call, rnd.palette)} :
       \E dimmed \in {applyBrightness(drawRoutine(p, call, rnd.led))} :
         /\ routines' = dimmed
         /\ driver' = dimmed.buffer
         /\ entered' = p
         /\ called' = NoteCall(routines, call)
         /\ unscaled' = drawRoutine([p EXCEPT !.buffer = unscaled], call, rnd.led).buffer
         /\ undefined' = (undefined \/ dimmed.undefined)
         /\ args' = << call.param, call.colorGroup >>
    /\ passes' = passes + 1
    /\ op' = "tick"
    /\ UNCHANGED << heard, updated, env, sketch, routines_2, serial, now, received, applied >>

\* the arguments of setCustomColorCount: none, some, one more than the
\* custom array holds
CustomCounts == {0, 3, PaletteCapacity + 1}

\* setCustomColorCount(count) called between two passes
SetCustomColorCount ==
    /\ env.setters
    /\ passes < env.budget
    /\ \E count \in CustomCounts :
         /\ routines' = setCustomColorCount(routines, count)
         /\ called' = [called EXCEPT !.clean =
                         @ /\ ~(count /= 0 /\ routines.m_current_group = EColorGroup.eCustom)]
         /\ args' = << count >>
    /\ passes' = passes + 1
    /\ op' = "setCustomColorCount"
    /\ UNCHANGED << heard, updated, env, sketch, routines_2, driver, serial, now, received, applied,
                    undefined,
                    entered, unscaled >>

\* brightness(level) called between two passes
Brightness ==
    /\ env.setters
    /\ passes < env.budget
    /\ \E level \in env.levels :
         /\ routines' = SetBrightness(routines, level)
         /\ args' = << level >>
    /\ passes' = passes + 1
    /\ op' = "brightness"
    /\ UNCHANGED << heard, updated, env, sketch, routines_2, driver, serial, now, received, applied,
                    undefined,
                    called, entered, unscaled >>

\* resetToDefaults() called between two passes
ResetToDefaults ==
    /\ env.setters
    /\ passes < env.budget
    /\ routines' = resetToDefaults(routines)
    /\ called' = NoCall
    /\ passes' = passes + 1
    /\ op' = "resetToDefaults"
    /\ args' = << >>
    /\ UNCHANGED << heard, updated, env, sketch, routines_2, driver, serial, now, received, applied,
                    undefined,
                    entered, unscaled >>

\* barSize(value), fadeSpeed(value) or blinkSpeed(value) called between two
\* passes
SetTunable ==
    /\ passes < env.budget
    /\ \E value \in env.tunables, setter \in {"barSize", "fadeSpeed", "blinkSpeed"} :
         /\ routines' = CASE setter = "barSize"    -> barSize(routines, value)
                          [] setter = "fadeSpeed"  -> fadeSpeed(routines, value)
                          [] setter = "blinkSpeed" -> blinkSpeed(routines, value)
         /\ args' = << setter, value >>
    /\ passes' = passes + 1
    /\ op' = "setTunable"
    /\ UNCHANGED << heard, updated, env, sketch, routines_2, driver, serial, now, received,
                    applied, undefined, called, entered, unscaled >>

NextEngine == Tick \/ SetCustomColorCount \/ Brightness \/ ResetToDefaults \/ SetTunable

SpecEngine == InitEngine /\ [][NextEngine]_vars

(***************************************************************************)
(* The brightness: brightness() with every argument a uint8_t can hold,    *)
(* the brightness change of the protocol, and passes that draw a solid     *)
(* color of every channel value and call applyBrightness().                *)
(***************************************************************************)
BrightnessScenario ==
    [name |-> "brightness", budget |-> 2, setters |-> TRUE, entropy |-> {99},
     levels |-> 0..255]

\* the values of a brightness change message
BrightnessValues == {-1, 0, 30, 100, 101, 300}

InitBrightness == SetupEngine(BrightnessScenario)

\* parsePacket(eBrightnessChange) for a message <header, index, value>
BrightnessChange ==
    /\ passes < env.budget
    /\ \E value \in BrightnessValues, index \in {0, DEFAULT_HW_INDEX, DEFAULT_HW_INDEX + 1} :
       \E res \in {parsePacket([k |-> sketch, r |-> routines, r2 |-> routines_2,
                                 out |-> << >>, millis |-> now, applied |-> << >>,
                                 undefined |-> undefined],
                                << EPacketHeader.eBrightnessChange, index, value >>)} :
         /\ sketch' = res.m.k
         /\ routines' = res.m.r
         /\ routines_2' = res.m.r2
         /\ args' = << index, value >>
    /\ passes' = passes + 1
    /\ op' = "brightnessChange"
    /\ UNCHANGED << heard, updated, env, driver, serial, now, received, applied, undefined,
                    called, entered, unscaled >>

NextBrightness == Tick \/ Brightness \/ BrightnessChange

SpecBrightness == InitBrightness /\ [][NextBrightness]_vars

(***************************************************************************)
(* The multi sample sketch, version 2.0.0: two engines on one strip and a  *)
(* third device behind a second serial line, all driven by one parser.     *)
(* A machine m of this sketch has m.k its globals, m.r and m.r2 the        *)
(* engines `routines` and `routines_2`.                                    *)
(***************************************************************************)
multi_DELAY_VALUE   == 3
multi_DEFAULT_SPEED == 300
char_array_size     == 30
multi_max_ints      == 10

\* EPacketHeader of LightingProtocols.h
LightingHeader ==
    [ eModeChange |-> 0, eMainColorChange |-> 1, eCustomArrayColorChange |-> 2,
      eBrightnessChange |-> 3, eSpeedChange |-> 4, eCustomColorCountChange |-> 5,
      eIdleTimeoutChange |-> 6, eStateUpdateRequest |-> 7,
      eResetSettingsToDefaults |-> 8, ePacketHeader_MAX |-> 9 ]

\* (int)((1000.0 / DELAY_VALUE) / (percent / 100.0)).  The conversion of a
\* value no int holds (a division by 0.0, a quotient beyond 16 bits) is
\* undefined: its outcome is conv.
multi_speed(percent, conv) ==
    LET magnitude == IF percent = 0 THEN 0
                     ELSE (1000 * 100) \div (multi_DELAY_VALUE * Abs(percent))
    IN  IF percent = 0 \/ magnitude > 32767
        THEN [undefined |-> TRUE, value |-> conv]
        ELSE [undefined |-> FALSE,
              value |-> IF percent < 0 THEN -magnitude ELSE magnitude]

\* the globals of the multi sample after setup()
MultiGlobals ==
    [ current_routine |-> ELightingRoutine.eSingleGlimmer,
      current_routine_2 |-> ELightingRoutine.eSingleGlimmer,
      current_group |-> EColorGroup.eCustom,
      current_group_2 |-> EColorGroup.eCustom,
      received_hardware_index |-> 0,
      update_speed |-> multi_speed(multi_DEFAULT_SPEED, 0).value,
      update_speed_2 |-> multi_speed(multi_DEFAULT_SPEED, 0).value,
      idle_timeout |-> DEFAULT_TIMEOUT * 60 * 1000,
      idle_timeout_2 |-> DEFAULT_TIMEOUT * 60 * 1000,
      last_message_time |-> 0,
      loop_counter |-> 0,
      cube_serial |-> << >> ]

\* delimitedStringToIntArray(String): isValid, the ints, and whether more
\* than packet_int_array holds were stored
multi_delimitedStringToIntArray(message) ==
    IF Len(message) + 1 < char_array_size
    THEN IF \A i \in 1..Len(message) :
              isdigit(message[i]) \/ message[i] = value_delimiter
                \/ message[i] = MinusSign
         THEN LET values == strtok(message, value_delimiter)
              IN  [isValid |-> TRUE,
                   ints |-> [i \in 1..Len(values) |-> atoi(values[i])],
                   undefined |-> Len(values) > multi_max_ints]
         ELSE [isValid |-> FALSE, ints |-> << >>, undefined |-> FALSE]
    ELSE [isValid |-> FALSE, ints |-> << >>, undefined |-> FALSE]

\* (received_hardware_index == hardware_index) || (received_hardware_index == 0)
multi_Addressed(m) ==
    m.k.received_hardware_index = DEFAULT_HW_INDEX \/ m.k.received_hardware_index = 0
\* (received_hardware_index == routines_2_index) || (received_hardware_index == 0)
multi_Addressed_2(m) ==
    m.k.received_hardware_index = routines_2_index \/ m.k.received_hardware_index = 0

\* buildStateUpdatePacket() of the multi sample; the cube does not answer
multi_buildStateUpdatePacket(m) ==
    JoinValues(<< U8(LightingHeader.eStateUpdateRequest), U8(DEFAULT_HW_INDEX),
                  IF m.r.m_is_on THEN 1 ELSE 0, 1,
                  m.r.m_main_color.red, m.r.m_main_color.green, m.r.m_main_color.blue,
                  U8(m.k.current_routine), U8(m.k.current_group), m.r.m_bright_level,
                  U8(routines_2_index),
                  IF m.r2.m_is_on THEN 1 ELSE 0, 1,
                  m.r2.m_main_color.red, m.r2.m_main_color.green,
                  m.r2.m_main_color.blue,
                  U8(m.k.current_routine_2), U8(m.k.current_group_2),
                  m.r2.m_bright_level >>)

\* parsePacket(header) of the multi sample: the machine it leaves and its
\* result
multi_parsePacket(m, ints, current_packet, conv) ==
    LET header == At(ints, 0)
        size   == Len(ints)
        fail   == [success |-> FALSE, m |-> m]
        to(n)  == [n EXCEPT !.k.received_hardware_index = U8(At(ints, 1))]
        \* the statements of one device under its addressing test
        both(n, First(_), Second(_)) ==
            With(IF multi_Addressed(n) THEN First(n) ELSE n, LAMBDA n1 :
              IF multi_Addressed_2(n1) THEN Second(n1) ELSE n1)
    IN  CASE header = LightingHeader.eModeChange ->
               IF size = 3 /\ At(ints, 2) < ELightingRoutine.eLightingRoutine_MAX
               THEN LET changed == At(ints, 2) /= m.k.current_routine
                        m1 == IF changed THEN [m EXCEPT !.k.loop_counter = 0] ELSE m
                    IN  [success |-> changed,
                         m |-> both(to(m1),
                                    LAMBDA n : [n EXCEPT !.k.current_routine = At(ints, 2)],
                                    LAMBDA n : [n EXCEPT !.k.current_routine_2 = At(ints, 2)])]
               ELSE IF size = 4 /\ At(ints, 2) >= ELightingRoutine.eMultiGlimmer
               THEN LET changed == At(ints, 2) /= m.k.current_routine
                        m1 == IF changed THEN [m EXCEPT !.k.loop_counter = 0] ELSE m
                    IN  [success |-> changed,
                         m |-> both(to(m1),
                                    LAMBDA n : [n EXCEPT !.k.current_routine = At(ints, 2),
                                                         !.k.current_group = At(ints, 3)],
                                    LAMBDA n : [n EXCEPT !.k.current_routine_2 = At(ints, 2),
                                                         !.k.current_group_2 = At(ints, 3)])]
               ELSE fail
          [] header = LightingHeader.eMainColorChange ->
               IF size = 5
               THEN LET changed == At(ints, 2) /= m.r.m_main_color.red
                                     \/ At(ints, 3) /= m.r.m_main_color.green
                                     \/ At(ints, 4) /= m.r.m_main_color.blue
                        m1 == IF changed THEN [m EXCEPT !.k.loop_counter = 0] ELSE m
                    IN  [success |-> changed,
                         m |-> both(to(m1),
                                    LAMBDA n : [n EXCEPT !.r = setMainColor(
                                        n.r, At(ints, 2), At(ints, 3), At(ints, 4))],
                                    LAMBDA n : [n EXCEPT !.r2 = setMainColor(
                                        n.r2, At(ints, 2), At(ints, 3), At(ints, 4))])]
               ELSE fail
          [] header = LightingHeader.eCustomArrayColorChange ->
               IF size = 6 /\ At(ints, 2) >= 0
                    /\ At(ints, 2) < ELightingRoutine.eLightingRoutine_MAX
               THEN LET m1 == IF m.k.current_routine > ELightingRoutine.eSingleSawtoothFadeOut
                                   /\ m.k.current_group = EColorGroup.eCustom
                              THEN [m EXCEPT !.k.loop_counter = 0] ELSE m
                    IN  [success |-> TRUE,
                         \* routines_2.setColor is given packet_int_array[2], [3], [4]
                         m |-> both(to(m1),
                                    LAMBDA n : [n EXCEPT !.r = setColor(
                                        n.r, At(ints, 2), At(ints, 3), At(ints, 4),
                                        At(ints, 5))],
                                    LAMBDA n : [n EXCEPT !.r2 = setColor(
                                        n.r2, At(ints, 2), At(ints, 2), At(ints, 3),
                                        At(ints, 4))])]
               ELSE fail
          [] header = LightingHeader.eBrightnessChange ->
               IF size = 3
               THEN LET param == constrain(At(ints, 2), 0, 100)
                    IN  [success |-> TRUE,
                         m |-> both(to(m),
                                    LAMBDA n : [n EXCEPT !.r = SetBrightness(n.r, param)],
                                    LAMBDA n : [n EXCEPT !.r2 = SetBrightness(n.r2, param)])]
               ELSE fail
          [] header = LightingHeader.eSpeedChange ->
               IF size = 3
               THEN LET speed == multi_speed(At(ints, 2), conv)
                        set(n) == [n EXCEPT !.undefined = @ \/ speed.undefined]
                    IN  [success |-> TRUE,
                         m |-> both(to(m),
                                    LAMBDA n : [set(n) EXCEPT !.k.update_speed = speed.value],
                                    LAMBDA n : [set(n) EXCEPT
                                                  !.k.update_speed_2 = speed.value])]
               ELSE fail
          [] header = LightingHeader.eIdleTimeoutChange ->
               IF size = 3
               THEN [success |-> TRUE,
                     m |-> both(to(m),
                                LAMBDA n : [n EXCEPT
                                              !.k.idle_timeout = At(ints, 2) * 60 * 1000],
                                LAMBDA n : [n EXCEPT
                                              !.k.idle_timeout_2 = At(ints, 2) * 60 * 1000])]
               ELSE fail
          [] header = LightingHeader.eCustomColorCountChange ->
               IF size = 3 /\ At(ints, 2) > 1
               THEN [success |-> TRUE,
                     m |-> both(to(m),
                                LAMBDA n : [n EXCEPT
                                              !.r = setCustomColorCount(n.r, At(ints, 2))],
                                LAMBDA n : [n EXCEPT
                                              !.r2 = setCustomColorCount(n.r2, At(ints, 2))])]
               ELSE fail
          [] header = LightingHeader.eStateUpdateRequest ->
               IF size = 1
               THEN \* "count this is as a valid message, despite it not setting
                    \* success to true"
                    [success |-> FALSE,
                     m |-> [m EXCEPT
                              !.out = Append(@, multi_buildStateUpdatePacket(m)
                                                  \o << packet_delimiter >>),
                              !.k.cube_serial = current_packet \o << packet_delimiter >>,
                              !.k.last_message_time = m.millis]]
               ELSE fail
          [] header = LightingHeader.eResetSettingsToDefaults ->
               IF size = 3 /\ At(ints, 1) = 42 /\ At(ints, 2) = 71
               THEN [success |-> TRUE, m |-> [m EXCEPT !.r = resetToDefaults(m.r)]]
               ELSE fail
          [] OTHER -> fail

\* `if (packetReceived) { ... }` of loop() of the multi sample
multi_ReceivePacket(m, current_packet, conv) ==
    With(multi_delimitedStringToIntArray(current_packet), LAMBDA parsed :
      IF parsed.isValid /\ Len(parsed.ints) > 0
           /\ At(parsed.ints, 0) < LightingHeader.ePacketHeader_MAX
      THEN With(multi_parsePacket([m EXCEPT !.undefined = @ \/ parsed.undefined],
                                  parsed.ints, current_packet, conv), LAMBDA res :
             With(IF res.success
                  THEN [res.m EXCEPT
                          !.out = Append(@, current_packet \o << packet_delimiter >>),
                          !.k.last_message_time = m.millis,
                          !.applied = Append(@, parsed.ints)]
                  ELSE res.m, LAMBDA m1 :
               [m1 EXCEPT !.k.cube_serial = current_packet \o << packet_delimiter >>]))
      ELSE m)

\* changeLightingRoutine(currentMode): the routine function it calls
changeLightingRoutineCall(currentMode, group, r) ==
    LET fn == CASE currentMode = ELightingRoutine.eOff           -> "turnOff"
                [] currentMode = ELightingRoutine.eSingleSolid   -> "singleSolid"
                [] currentMode = ELightingRoutine.eSingleBlink   -> "singleBlink"
                [] currentMode = ELightingRoutine.eSingleWave    -> "singleWave"
                [] currentMode = ELightingRoutine.eSingleGlimmer -> "singleGlimmer"
                [] currentMode = ELightingRoutine.eSingleLinearFade -> "singleLinearFade"
                [] currentMode = ELightingRoutine.eSingleSineFade   -> "singleSineFade"
                [] currentMode = ELightingRoutine.eSingleSawtoothFadeIn ->
                     "singleSawtoothFadeIn"
                [] currentMode = ELightingRoutine.eSingleSawtoothFadeOut ->
                     "singleSawtoothFadeOut"
                [] currentMode = ELightingRoutine.eMultiGlimmer  -> "multiGlimmer"
                [] currentMode = ELightingRoutine.eMultiFade     -> "multiFade"
                [] currentMode = ELightingRoutine.eMultiRandomSolid -> "multiRandomSolid"
                [] currentMode = ELightingRoutine.eMultiRandomIndividual ->
                     "multiRandomIndividual"
                [] currentMode = ELightingRoutine.eMultiBarsSolid  -> "multiBarsSolid"
                [] currentMode = ELightingRoutine.eMultiBarsMoving -> "multiBarsMoving"
                [] OTHER -> "none"
    IN  [fn |-> fn,
         red |-> r.m_main_color.red, green |-> r.m_main_color.green,
         blue |-> r.m_main_color.blue,
         colorGroup |-> group,
         param |-> CASE fn \in {"singleGlimmer", "multiGlimmer"} -> GLIMMER_PERCENT
                     [] fn \in {"multiBarsSolid", "multiBarsMoving"} -> BAR_SIZE
                     [] OTHER -> 0,
         shouldUpdate |-> TRUE]

changeLightingRoutine(r, call, rnd) ==
    IF call.fn = "none" THEN r
    ELSE IF call.fn = "turnOff" THEN turnOff(r)
    ELSE callRoutine(r, call, rnd)

\* !(loop_counter % update_speed), loop_counter an unsigned long: a negative
\* update_speed converts to a number above every loop_counter reached here,
\* a remainder by 0 is undefined
multi_UpdateDue(loop_counter, update_speed) ==
    [ undefined |-> update_speed = 0,
      due |-> IF update_speed = 0 THEN FALSE
              ELSE IF update_speed < 0 THEN loop_counter = 0
              ELSE loop_counter % update_speed = 0 ]

\* the outputs of random() the routine of a device can see in a pass
multi_Draws(routine, group, speed, r, loop_counter) ==
    Draws(IF multi_UpdateDue(loop_counter, speed).due
          THEN [fn |-> IF changeLightingRoutineCall(routine, group, r).fn = "turnOff"
                       THEN "none" ELSE changeLightingRoutineCall(routine, group, r).fn,
                colorGroup |-> group]
          ELSE [fn |-> "none"],
          env.entropy, r.m_LED_count)

\* the call singleSolid(0, 0, 0) of the idle timeout
SolidBlack == [fn |-> "singleSolid", red |-> 0, green |-> 0, blue |-> 0,
               colorGroup |-> 0, param |-> 0, shouldUpdate |-> TRUE]
NoDraws == [palette |-> Fill(PaletteCapacity, Black), led |-> << >>]

\* the rest of the pass of the multi sample: the routines, the brightness,
\* the LEDs, the timeouts
multi_Pass(current_packet, m, rnd, rnd_2) ==
    \E due \in {multi_UpdateDue(m.k.loop_counter, m.k.update_speed)},
       due_2 \in {multi_UpdateDue(m.k.loop_counter, m.k.update_speed_2)} :
    \E drawn \in {IF due.due
                  THEN applyBrightness(changeLightingRoutine(m.r,
                         changeLightingRoutineCall(m.k.current_routine, m.k.current_group,
                                                   m.r), rnd))
                  ELSE m.r},
       drawn_2 \in {IF due_2.due
                    THEN applyBrightness(changeLightingRoutine(m.r2,
                           changeLightingRoutineCall(m.k.current_routine_2,
                                                     m.k.current_group_2, m.r2), rnd_2))
                    ELSE m.r2} :
    \E timeout \in {TimedOut(m.k.idle_timeout, m.k.last_message_time, m.millis)},
       timeout_2 \in {TimedOut(m.k.idle_timeout_2, m.k.last_message_time, m.millis)} :
      /\ sketch' = [m.k EXCEPT
                      !.loop_counter = @ + 1,
                      !.current_routine = IF timeout THEN ELightingRoutine.eOff ELSE @,
                      !.current_routine_2 = IF timeout_2 THEN ELightingRoutine.eOff ELSE @]
      /\ routines' = IF timeout THEN callRoutine(drawn, SolidBlack, NoDraws) ELSE drawn
      /\ routines_2' = IF timeout_2 THEN callRoutine(drawn_2, SolidBlack, NoDraws)
                       ELSE drawn_2
      /\ driver' = IF due.due \/ due_2.due THEN drawn.buffer \o drawn_2.buffer ELSE driver
      /\ serial' = m.out
      /\ now' = m.millis
      /\ passes' = passes + 1
      /\ received' = current_packet
      /\ applied' = m.applied
      /\ heard' = Heard(m.applied, m.millis)
      /\ updated' = << due.due, due_2.due >>
      /\ undefined' = (m.undefined \/ drawn.undefined \/ drawn_2.undefined
                         \/ due.undefined \/ due_2.undefined)
      /\ op' = "loop"
      /\ args' = << >>
      /\ UNCHANGED << called, entered, unscaled >>

multi_Machine(step) ==
    [k |-> sketch, r |-> routines, r2 |-> routines_2, out |-> << >>,
     millis |-> now + step, applied |-> << >>, undefined |-> undefined]

multi_Draw(current_packet, m) ==
    \E rnd \in multi_Draws(m.k.current_routine, m.k.current_group, m.k.update_speed,
                           m.r, m.k.loop_counter),
       rnd_2 \in multi_Draws(m.k.current_routine_2, m.k.current_group_2,
                             m.k.update_speed_2, m.r2, m.k.loop_counter) :
      multi_Pass(current_packet, m, rnd, rnd_2)

\* String::trim(): the string without the whitespace at its ends
RECURSIVE trim(_)
trim(s) ==
    IF s = << >> THEN s
    ELSE IF isspace(Head(s)) THEN trim(Tail(s))
    ELSE IF isspace(s[Len(s)]) THEN trim(SubSeq(s, 1, Len(s) - 1))
    ELSE s

\* the messages the sender of the multi sample puts on the line, as ints
MultiCommands ==
    { << 0, 1, 1 >>, << 0, 2, 9, 3 >>, << 0, 3, 2 >>,
      << 1, 0, 300, 0, 0 >>, << 1, 2, 1, 2, 3 >>,
      << 2, 0, 0, 10, 20, 30 >>, << 2, 2, 1, 10, 20, 30 >>, << 2, 3, 0, 1, 2, 3 >>,
      << 3, 0, 50 >>, << 3, 2, 150 >>, << 3, 1, 20 >>, << 3, 3, 70 >>,
      << 4, 1, 200 >>, << 4, 2, 0 >>,
      << 5, 0, 3 >>, << 8, 42, 71 >>, << 8, 42, 70 >>, << 8, 71, 42 >>, << 7 >>,
      << 7, 1 >>,
      << 3, 1, 20, 0, 0, 0, 0, 0, 0, 0 >>, << 3, 1, 20, 0, 0, 0, 0, 0, 0, 0, 0 >> }
\* mode changes of the multi sample with a routine or a group at the ends of
\* the enumerations and beyond them
MultiRoutineCommands ==
    { << 0, 1, -1 >>, << 0, 1, 14 >>, << 0, 2, 15 >>, << 0, 2, 20, 3 >>,
      << 0, 1, 10, 17 >>, << 0, 1, 10, 18 >>, << 0, 2, 10, -1 >> }
MultiIdleCommands ==
    { << 6, 1, 1 >>, << 6, 2, 1 >>, << 6, 0, 0 >>, << 3, 2, 50 >>, << 7 >> }

\* the packets of a scenario of the multi sample: the messages as text, one
\* of them followed by a newline, and a packet that is no list of numbers
MultiInbox(scenario) ==
    IF scenario = "idle" THEN { JoinValues(ints) : ints \in MultiIdleCommands }
    ELSE IF scenario = "routines" THEN { JoinValues(ints) : ints \in MultiRoutineCommands }
    ELSE { JoinValues(ints) : ints \in MultiCommands }
           \cup { JoinValues(<< 3, 0, 50 >>) \o << 10 >>, << 120 >> }

MultiScenarios ==
    { [name |-> "commands", budget |-> 2, steps |-> {multi_DELAY_VALUE},
       entropy |-> {99}, conversions |-> {0, 32767}],
      [name |-> "idle", budget |-> 2,
       steps |-> {multi_DELAY_VALUE, MillisPerMinute, 2 * MillisPerMinute},
       entropy |-> {99}, conversions |-> {0}],
      [name |-> "routines", budget |-> 2, steps |-> {multi_DELAY_VALUE},
       entropy |-> {99}, conversions |-> {0}] }

\* setup() of the multi sample
InitMultiSample ==
    /\ env \in MultiScenarios
    /\ sketch = MultiGlobals
    /\ routines = setMainColor(RoutinesRGB(LED_COUNT \div 2), 0, 255, 0)
    /\ routines_2 = setMainColor(RoutinesRGB(LED_COUNT \div 2), 0, 255, 0)
    /\ driver = Fill(LED_COUNT, Black)
    /\ serial = << >>
    /\ now = 0
    /\ passes = 0
    /\ received = << >>
    /\ applied = << >>
    /\ undefined = FALSE
    /\ called = NoCall
    /\ entered = routines
    /\ unscaled = Fill(LED_COUNT, Black)
    /\ heard = [d \in 1..2 |-> 0]
    /\ updated = [d \in 1..2 |-> FALSE]
    /\ op = "setup"
    /\ args = << >>

\* a pass of loop() of the multi sample with nothing to read
MultiLoopIdle ==
    /\ passes < MaxLoops
    /\ \E step \in env.steps : multi_Draw(<< >>, multi_Machine(step))
    /\ UNCHANGED env

\* a pass of loop() of the multi sample that reads a packet.  A packet that
\* starts with DISCOVERY_PACKET takes the discovery branch, which is left out.
MultiLoopPacket ==
    /\ passes < MaxLoops
    /\ env.budget > 0
    /\ \E current_packet \in MultiInbox(env.name), step \in env.steps,
          conv \in env.conversions :
         /\ current_packet[1] /= 68
         /\ \E m \in {multi_ReceivePacket(multi_Machine(step), trim(current_packet), conv)} :
              multi_Draw(current_packet, m)
    /\ env' = [env EXCEPT !.budget = @ - 1]

NextMultiSample == MultiLoopIdle \/ MultiLoopPacket

SpecMultiSample == InitMultiSample /\ [][NextMultiSample]_vars

(***************************************************************************)
(* The multi build of CorlumaSample.ino (IS_MULTI, IS_SERIAL)              *)
(***************************************************************************)
MultiBuildScenarios ==
    { [name |-> "multi", budget |-> 2, steps |-> {DELAY_VALUE}, entropy |-> {99}],
      [name |-> "multi idle", budget |-> 2,
       steps |-> {DELAY_VALUE, MillisPerMinute, 2 * MillisPerMinute}, entropy |-> {99}],
      [name |-> "long", budget |-> 2, steps |-> {DELAY_VALUE}, entropy |-> {99}],
      [name |-> "device modes", budget |-> 2, steps |-> {DELAY_VALUE}, entropy |-> {99}],
      [name |-> "device pause", budget |-> 1, steps |-> {DELAY_VALUE}, entropy |-> {99}] }

InitMultiBuild == \E scenario \in MultiBuildScenarios : Setup(scenario, TRUE)

SpecMultiBuild == InitMultiBuild /\ [][Next]_vars

(***************************************************************************)
(* Properties of the command protocol (CorlumaSample.ino), under Spec      *)
(***************************************************************************)
\* what a mode change sets: the routine, the palette, the update speed, the
\* parameters of the routines and the main color
ModeState(k, r) ==
    << k.current_routine, k.current_palette, k.update_speed, k.single_glimmer_param,
       k.multi_glimmer_param, k.sawtooth_param, k.fade_param, k.multi_bars_param,
       r.m_main_color >>

\* what the commands set
Settings(k, r) ==
    << ModeState(k, r), k.idle_timeout, r.m_bright_level, r.m_custom_colors,
       r.m_custom_count, r.m_is_on >>

\* the speed, and the glimmer percent or bar size, of a mode change
SpeedOf(ints) ==
    IF ints[3] \in {ERoutine.eSingleBlink, ERoutine.eSingleWave, ERoutine.eSingleFade,
                    ERoutine.eSingleSawtoothFade, ERoutine.eSingleGlimmer}
    THEN ints[7] ELSE ints[5]
OutOfRange(ints) ==
    \/ SpeedOf(ints) > MAX_SPEED_VALUE
    \/ ints[3] = ERoutine.eSingleGlimmer /\ ints[8] > 100
    \/ ints[3] = ERoutine.eMultiGlimmer /\ ints[6] > 100
    \/ ints[3] = ERoutine.eMultiBars /\ ints[6] > 10
OutOfRangeFrames ==
    { Packet(<< message >>) :
        message \in { ints \in ModeMessages : ints[3] /= ERoutine.eSingleSolid
                                               /\ OutOfRange(ints) } }

\* C1: a mode change with an argument out of range (speed above 200, glimmer
\* percent above 100, bar size above 10) fails and changes nothing: not the
\* routine, the palette, the update speed, the parameters of the routines or
\* the main color, and the loop counter is not reset.
C1_OutOfRangeModeChangeChangesNothing ==
    [][ received' \in OutOfRangeFrames
          => /\ applied' = << >>
             /\ ModeState(sketch', routines') = ModeState(sketch, routines)
             /\ sketch'.loop_counter = sketch.loop_counter + 1 ]_vars

\* the packets that are not valid, with the messages of each that are sound
\* by themselves: a message with a character that is not allowed next to a
\* sound one, and messages that each carry a checksum, one of them wrong
MixedFrames ==
    { [frame |-> SpoiledFrame(b),
       sound |-> SubSeq(b.messages, 1, b.spoiled - 1)
                   \o SubSeq(b.messages, b.spoiled + 1, Len(b.messages))]
      : b \in SpoiledBatches }
RejectedFrames == BadChecksumFrames \cup HashCountFrames \cup SpoiledFrames

C3_BadChecksumPacketHasNoEffect ==
    [][ received' \in BadChecksumFrames \cup HashCountFrames
          => /\ Settings(sketch', routines') = Settings(sketch, routines)
             /\ serial' = << >>
             /\ sketch'.last_message_time = sketch.last_message_time ]_vars

\* a packet with a wrong checksum was read after a message had been
\* accepted at an earlier time: nothing was written, the idle clock kept
\* the time of the accepted message
C3_Witness ==
    /\ op = "loop"
    /\ received \in BadChecksumFrames
    /\ serial = << >>
    /\ sketch.last_message_time > 0
    /\ sketch.last_message_time < now

\* the messages a written packet holds, as ints
Decode(line) ==
    LET messages == strtok(checkIfPacketIsValid(readBytesUntil(line)).packet,
                           message_delimiter)
    IN  [i \in 1..Len(messages) |-> delimitedStringToIntArray(messages[i])]

\* the packets of messages, with the messages
BatchTable == { [frame |-> Packet(messages), messages |-> messages] : messages \in Batches }

IsQuery(ints) ==
    ints[1] \in {EPacketHeader.eStateUpdateRequest, EPacketHeader.eCustomArrayUpdateRequest}
IsCommand(ints) == ints[1] >= 0 /\ ints[1] < EPacketHeader.eStateUpdateRequest

\* C4: every packet the sketch writes (an echo, a state update, a custom
\* array update) passes the validation of received packets, and every
\* command the echo of a packet of commands decodes to is a command that was
\* applied, with its header, hardware index and arguments.
C4_WrittenPacketsAreValidAndEchoDecodes ==
    [][ /\ \A i \in DOMAIN serial' : checkIfPacketIsValid(readBytesUntil(serial'[i])).valid
        /\ \A b \in BatchTable :
             (received' = b.frame /\ applied' /= << >>
                /\ \A i \in DOMAIN b.messages : ~IsQuery(b.messages[i]))
               => /\ Len(serial') = 1
                  /\ \A i \in DOMAIN Decode(serial'[1]) :
                       \E j \in DOMAIN applied' : applied'[j] = Decode(serial'[1])[i] ]_vars

C6_EveryMessageIsApplied ==
    [][ \A b \in BatchTable :
          received' = b.frame => applied' = SelectSeq(b.messages, IsCommand) ]_vars

\* C7: the echo of a packet without a query holds exactly the messages that
\* were applied, in order.
C7_EchoHoldsTheAppliedMessages ==
    [][ \A b \in BatchTable :
          (received' = b.frame /\ \A i \in DOMAIN b.messages : ~IsQuery(b.messages[i]))
            => serial' = IF applied' = << >> THEN << >>
                         ELSE << Payload(applied') \o CrcSuffix(Payload(applied')) >> ]_vars

(***************************************************************************)
(* Properties of the engine (RoutinesRGB.cpp), under SpecEngine            *)
(***************************************************************************)
\* the transient state of an animation
Phase(e) == << e.m_temp_counter, e.m_temp_index, e.m_temp_bool, e.m_temp_color >>

\* the call repeats the routine function and the group of the call before
SameCall(before, after) ==
    before.fn = after.fn /\ before.colorGroup = after.colorGroup

\* C8: a call of the routine function and group of the call before it, with
\* no setter in between that asks for a new setup, leaves the counter, the
\* index, the toggle and the temp color as the pass before left them.
C8_RepeatedCallKeepsThePhase ==
    [][ (op' = "tick" /\ called.clean /\ SameCall(called, called'))
          => Phase(entered') = Phase(routines) ]_vars

\* singleBlink was called three times in a row: the counter the first two
\* calls advanced and the toggle the first call flipped were still there
\* after preProcess of the third
C8_Witness ==
    /\ op = "tick"
    /\ called.fn = "singleBlink"
    /\ called.clean
    /\ entered.m_temp_counter = 2
    /\ ~entered.m_temp_bool

\* C9: a call of another routine function than the call before it, or of
\* another group, starts from the first phase of its routine: counter 0
\* (the fade speed for the sawtooth fade out), index 0, toggle true.
C9_ChangedCallResetsThePhase ==
    [][ (op' = "tick" /\ called.fn /= "none" /\ ~SameCall(called, called'))
          => /\ entered'.m_temp_counter =
                   IF called'.fn = "singleSawtoothFadeOut"
                   THEN entered'.m_fade_speed ELSE 0
             /\ entered'.m_temp_index = 0
             /\ entered'.m_temp_bool ]_vars

\* C10: after every pass that calls a routine and applyBrightness(), each
\* channel handed to the driver is the channel the routine defines, scaled
\* once by the brightness.
C10_DriverHoldsTheScaledFrame ==
    op = "tick"
      => \A i \in DOMAIN driver : driver[i] = ScaleColor(unscaled[i], routines.m_bright_level)

(***************************************************************************)
(* Properties of the brightness, under SpecBrightness                      *)
(***************************************************************************)
\* floor(v * b / 100), in unbounded arithmetic
Dimmed(v, b) == (v * b) \div 100

C12_BrightnessStaysInRange ==
    [][ /\ op' = "brightness"
          => routines'.m_bright_level =
               IF args'[1] > 100 THEN routines.m_bright_level ELSE args'[1]
        /\ routines'.m_bright_level \in 0..100 ]_vars

\* a brightness change message set the brightness to 30, then brightness(b)
\* with b above 100 was called and left it at 30
C12_Witness ==
    /\ op = "brightness"
    /\ args[1] > 100
    /\ routines.m_bright_level = 30
    /\ sketch.received_hardware_index = DEFAULT_HW_INDEX

(***************************************************************************)
(* C13: the idle timeout                                                   *)
(***************************************************************************)
\* no message of the pass was an on/off change
NoOnOffChange(messages) ==
    \A i \in 1..Len(messages) : messages[i][1] /= EPacketHeader.eOnOffChange

\* the pass turned the device off though no message asked for it
ForcedOff == op' = "loop" /\ routines.m_is_on /\ ~routines'.m_is_on /\ NoOnOffChange(applied')

\* C13: with T the time of the last valid command and M the idle timeout, a
\* pass of loop() at time t forces the device off exactly when M /= 0 and
\* t >= T + M; with M = 0 it never does.
C13_TimeoutForcesOffFromTPlusM ==
    [][ (op' = "loop" /\ routines.m_is_on /\ NoOnOffChange(applied')) =>
          (ForcedOff <=> (sketch'.idle_timeout /= 0
                            /\ now' >= sketch'.last_message_time + sketch'.idle_timeout)) ]_vars

(***************************************************************************)
(* C14: what the idle timeout leaves alone                                 *)
(***************************************************************************)
\* the routine, group, main color, brightness, update speed, idle timeout
\* and custom palette of the first device of either sketch
DeviceSettings(k, r) ==
    << k.current_routine,
       IF "current_group" \in DOMAIN k THEN k.current_group ELSE k.current_palette,
       r.m_main_color, r.m_bright_level, k.update_speed, k.idle_timeout,
       r.m_custom_colors, r.m_custom_count >>

\* a pass that read nothing, at a time when the idle timeout has run out
TimeoutFires ==
    /\ op' = "loop"
    /\ received' = << >>
    /\ TimedOut(sketch'.idle_timeout, sketch'.last_message_time, now')

\* C14: a pass of loop() in which the idle timeout turns the device off
\* leaves the routine, group, main color, brightness, update speed, idle
\* timeout and custom palette of the device as they were.
C14_TimeoutKeepsTheSettings ==
    [][ TimeoutFires => DeviceSettings(sketch', routines') = DeviceSettings(sketch, routines)
      ]_vars

(***************************************************************************)
(* C15: the state update request as a keep-alive                           *)
(***************************************************************************)
\* the state update request of either protocol, as the sketch reads it
StateRequests ==
    { Packet(<< << EPacketHeader.eStateUpdateRequest >> >>),
      JoinValues(<< LightingHeader.eStateUpdateRequest >>) }

\* C15: a pass of loop() that reads a state update request sets the time of
\* the last valid message to the time of the pass, leaves the settings of the
\* device alone and does not write the request back.
C15_StateUpdateRequestIsAKeepAlive ==
    [][ (op' = "loop" /\ received' \in StateRequests) =>
          /\ sketch'.last_message_time = now'
          /\ DeviceSettings(sketch', routines') = DeviceSettings(sketch, routines)
          /\ \A i \in 1..Len(serial') :
                serial'[i] \notin {received', received' \o << packet_delimiter >>}
      ]_vars

(***************************************************************************)
(* C16: the idle clock of each device                                      *)
(***************************************************************************)
\* the second device is off: the multi sample keeps that as the routine
\* eOff, the multi build in the engine
SecondIsOff(k, r2) ==
    IF "current_group_2" \in DOMAIN k THEN k.current_routine_2 = ELightingRoutine.eOff
    ELSE ~r2.m_is_on

\* C16: a message addressed to one device refreshes the idle clock of that
\* device only: a pass of loop() later than the idle timeout of the second
\* device after the last message addressed to it leaves that device off,
\* whatever the first device was sent meanwhile.
C16_EachDeviceHasItsOwnIdleClock ==
    [][ (op' = "loop" /\ sketch'.idle_timeout_2 /= 0
           /\ now' > heard'[2] + sketch'.idle_timeout_2)
          => SecondIsOff(sketch', routines_2') ]_vars

(***************************************************************************)
(* C17, C18: messages to all the devices                                   *)
(***************************************************************************)
\* the pass applied this one message and no other
AppliedOnly(ints) == op' = "loop" /\ applied' = << ints >>

\* the custom array color changes and the brightness changes of the
\* scenarios; both protocols give them the headers 2 and 3
ColorChanges ==
    { ints \in UNION { Range(batch) : batch \in MultiBuildBatches } \cup MultiCommands :
        ints[1] = EPacketHeader.eCustomArrayColorChange /\ Len(ints) = 6
          /\ ints[3] \in 0..(PaletteCapacity - 1) }
BrightnessChanges ==
    { ints \in UNION { Range(batch) : batch \in MultiBuildBatches } \cup MultiCommands :
        ints[1] = EPacketHeader.eBrightnessChange /\ Len(ints) = 3 }

\* C17: a custom array color change sent to index 0, its slot within the
\* custom palette, sets that slot to the transmitted color on both devices.
C17_BroadcastColorReachesEveryDevice ==
    [][ \A ints \in ColorChanges :
          (AppliedOnly(ints) /\ ints[2] = 0) =>
            /\ routines'.m_custom_colors[ints[3] + 1] = MakeColor(ints[4], ints[5], ints[6])
            /\ routines_2'.m_custom_colors[ints[3] + 1] = MakeColor(ints[4], ints[5], ints[6])
      ]_vars

\* C18: a brightness change sets the brightness of every device it is
\* addressed to (index 0: both) to the value constrained to 0..100, whatever
\* the brightness of the other device.
C18_BrightnessReachesTheAddressedDevices ==
    [][ \A ints \in BrightnessChanges :
          AppliedOnly(ints) =>
            /\ AddressedTo(ints, DEFAULT_HW_INDEX) =>
                  routines'.m_bright_level = constrain(ints[3], 0, 100)
            /\ AddressedTo(ints, routines_2_index) =>
                  routines_2'.m_bright_level = constrain(ints[3], 0, 100)
      ]_vars

(***************************************************************************)
(* C19: messages for a hardware index no device has                        *)
(***************************************************************************)
\* the echo of one message: the message, "&", and the checksum
EchoOf(ints) == Payload(<< ints >>) \o CrcSuffix(Payload(<< ints >>))

\* C19: a well-formed command of any header, addressed to a hardware index
\* that is neither the index of a device nor 0, is parsed with success and
\* echoed, and changes none of the settings of the device.
C19_UnaddressedCommandIsValidAndIdle ==
    [][ \A ints \in UnaddressedMessages :
          (op' = "loop" /\ received' = Packet(<< ints >>)) =>
            /\ applied' = << ints >>
            /\ serial' = << EchoOf(ints) >>
            /\ Settings(sketch', routines') = Settings(sketch, routines)
      ]_vars

(***************************************************************************)
(* C20: the range of the color channels                                    *)
(***************************************************************************)
\* the color a mode change carries
ColorOf(ints) == << ints[4], ints[5], ints[6] >>
InRange(c) == \A i \in 1..3 : c[i] >= 0 /\ c[i] <= 255

\* C20: a message that carries a color with a channel outside 0..255 is
\* dropped: it is not applied and the main color stays as it was.
C20_ColorOutOfRangeIsDropped ==
    [][ \A ints \in ColorMessages :
          (op' = "loop" /\ received' = Packet(<< ints >>) /\ ~InRange(ColorOf(ints))) =>
            /\ applied' = << >>
            /\ routines'.m_main_color = routines.m_main_color
      ]_vars

(***************************************************************************)
(* Frames longer than the receive buffer, under SpecMultiBuild             *)
(***************************************************************************)
\* the pass read bytes of a frame longer than current_packet
ReadOfLongFrame ==
    /\ op' = "loop"
    /\ received' /= << >>
    /\ Len(env'.frame) > max_packet_size(sketch')

\* C21: a frame longer than the receive buffer is discarded as a whole: no
\* pass that reads bytes of it, the bytes that fill the buffer or the bytes
\* read by a later pass, applies a message
C21_LongFrameIsDiscardedWhole ==
    [][ ReadOfLongFrame => applied' = << >> ]_vars

(***************************************************************************)
(* The cadence of the updates (CorlumaSample.ino), under Spec              *)
(***************************************************************************)
\* C22: while the update speed of the device is 0, a pass calls the routine
\* of the device only if it applied a command, and a pass that received
\* nothing does not call it
C22_PausedDeviceIsUpdatedOnlyByACommand ==
    [][ (op' = "loop" /\ sketch'.update_speed = 0) =>
          /\ updated'[1] => applied' /= << >>
          /\ received' = << >> => ~updated'[1]
      ]_vars

\* the pass applied one message: a brightness change of the first device
BrightnessApplied(level) == op' = "loop" /\ applied' = << << 3, 1, level >> >>

\* C23: a brightness change that changes the brightness of the device has
\* the routine of the device called, with the new brightness, by the same
\* pass, at any update speed and any loop counter; one that equals the
\* current brightness forces no call
C23_BrightnessChangeIsShownAtOnce ==
    [][ \A level \in 0..100 :
          /\ (BrightnessApplied(level) /\ level /= routines.m_bright_level) =>
                updated'[1] /\ routines'.m_bright_level = level
          /\ (BrightnessApplied(level) /\ level = routines.m_bright_level
                /\ sketch'.update_speed = 0) => ~updated'[1]
      ]_vars

(***************************************************************************)
(* What counts as a change of state, under SpecMultiBuild                  *)
(***************************************************************************)
\* what a mode change asks of its device: the routine, and the main color
\* (single routines) or the palette (multi routines)
AskedMode(ints) ==
    IF ints[3] <= ERoutine.eSingleSawtoothFade
    THEN << ints[3], MakeColor(ints[4], ints[5], ints[6]) >>
    ELSE << ints[3], ints[4] >>

\* the same of the second device as it is
Mode_2(k, r2, ints) ==
    IF ints[3] <= ERoutine.eSingleSawtoothFade
    THEN << k.current_routine_2, r2.m_main_color >>
    ELSE << k.current_routine_2, k.current_palette_2 >>

\* C24: whether a mode change counts as a change of state is decided by the
\* state of the device it is addressed to: a mode change for the second
\* device resets the loop counter exactly when it changes the routine, the
\* palette or the main color of the second device
C24_AddressedDeviceDecidesTheReset ==
    [][ \A ints \in DeviceModeMessages :
          (op' = "loop" /\ applied' = << ints >> /\ ints[2] = routines_2_index
             /\ sketch.loop_counter > 0) =>
            (sketch'.loop_counter = 1 <=> AskedMode(ints) /= Mode_2(sketch, routines_2, ints))
      ]_vars

(***************************************************************************)
(* The custom palette and the tunables of the engine, under SpecEngine     *)
(***************************************************************************)
\* C25: the count of custom colors in use is above 0 and at most the
\* capacity of the custom array (10), and the size of the palette the multi
\* color routines use is at most that capacity
C25_CustomCountStaysWithinThePalette ==
    /\ routines.m_custom_count > 0
    /\ routines.m_custom_count <= PaletteCapacity
    /\ routines.m_temp_size <= PaletteCapacity

\* barSize, fadeSpeed and blinkSpeed of an engine
Tunables(e) == << e.m_bar_size, e.m_fade_speed, e.m_blink_speed >>

\* a call of a setter, or of a routine function that calls one, with 0
TunableSetToZero ==
    \/ op = "setTunable" /\ U8(args[2]) = 0
    \/ op = "tick" /\ called.fn \in {"singleWave", "singleLinearFade",
                                     "singleSawtoothFadeOut", "multiBarsSolid"}
         /\ args = << 0 >>

\* C26: the three tunables are above 0 in every state, so no routine divides
\* by a tunable that is 0, and a setter called with 0 leaves every tunable as
\* it was
C26_TunablesStayPositive ==
    [][ /\ \A i \in 1..3 : Tunables(routines)[i] > 0 /\ Tunables(routines')[i] > 0
        /\ TunableSetToZero' => Tunables(routines') = Tunables(routines)
      ]_vars

\* a setter was called with 0, after another value had been set
C26_Witness ==
    /\ TunableSetToZero
    /\ op = "setTunable"
    /\ Tunables(routines) /= << DEFAULT_BAR_SIZE, DEFAULT_FADE_SPEED, DEFAULT_BLINK_SPEED >>

(***************************************************************************)
(* The glimmer routines, under SpecEngine                                  *)
(***************************************************************************)
\* the pass called the glimmer routine fn with the percent
GlimmerTick(fn, percent) ==
    op' = "tick" /\ called'.fn = fn /\ args'[1] = percent

\* the color every call of the scenarios passes to the single routines
BaseColor == MakeColor(Call("singleGlimmer", 0, 0).red, Call("singleGlimmer", 0, 0).green,
                       Call("singleGlimmer", 0, 0).blue)

\* C27: with percent 0 every LED has the base color after every glimmer
\* call, the first call after another routine included: the color given to
\* single glimmer, the first color of the palette for multi glimmer
C27_GlimmerOfNoLedKeepsTheBaseColor ==
    [][ /\ GlimmerTick("singleGlimmer", 0) =>
             \A i \in 1..LED_COUNT : unscaled'[i] = BaseColor
        /\ GlimmerTick("multiGlimmer", 0) =>
             \A i \in 1..LED_COUNT : unscaled'[i] = routines'.m_temp_array[1]
      ]_vars

\* C28: with percent 100 every call of single glimmer alters every LED,
\* whatever the generator returns: every LED has the base color with its
\* channels divided by 2, 3, 4 or 5
C28_GlimmerOfEveryLedAltersEveryLed ==
    [][ GlimmerTick("singleGlimmer", 100) =>
          \A i \in 1..LED_COUNT :
             \E factor \in 2..5 : unscaled'[i] = DivColor(BaseColor, factor)
      ]_vars

(***************************************************************************)
(* The reset to the defaults (multi sample), under SpecMultiSample         *)
(***************************************************************************)
\* what resetToDefaults is to restore: main color, routine, group,
\* brightness, tunables, custom colors and their count
EngineSettings(e) ==
    << e.m_main_color, e.m_current_routine, e.m_current_group, e.m_bright_level,
       Tunables(e), e.m_custom_colors, e.m_custom_count >>

\* the state packet of the sample for the globals k and the engines r, r2
StatePacketOf(k, r, r2) == multi_buildStateUpdatePacket([k |-> k, r |-> r, r2 |-> r2])

\* reset messages that do not carry 42 and 71
WrongResets == { << 8, 42, 70 >>, << 8, 71, 42 >> }

\* C29: after a pass that applies the reset message with 42 and 71 the
\* first engine has the settings of a newly constructed engine and the state
\* packet reports the default main color, routine, group and brightness; a
\* reset message with other values is not applied and changes nothing
C29_ResetRestoresTheDefaults ==
    [][ /\ (op' = "loop" /\ applied' = << << 8, 42, 71 >> >>) =>
             /\ EngineSettings(routines')
                  = EngineSettings(RoutinesRGB(routines.m_LED_count))
             /\ StatePacketOf(sketch', routines', routines_2')
                  = StatePacketOf([sketch' EXCEPT
                                     !.current_routine = ELightingRoutine.eSingleGlimmer,
                                     !.current_group = EColorGroup.eCustom],
                                  [routines' EXCEPT
                                     !.m_main_color = MakeColor(100, 25, 0),
                                     !.m_bright_level = DEFAULT_BRIGHTNESS],
                                  routines_2')
        /\ \A ints \in WrongResets :
             (op' = "loop" /\ received' = JoinValues(ints)) =>
               /\ applied' = << >>
               /\ EngineSettings(routines') = EngineSettings(routines)
               /\ StatePacketOf(sketch', routines', routines_2')
                    = StatePacketOf(sketch, routines, routines_2)
      ]_vars


(***************************************************************************)
(* C30: the group identifier of a multi-color routine                      *)
(***************************************************************************)
\* a pass that called a multi-color routine with the group identifier g
MultiCallWith(g) == op' = "tick" /\ called'.fn \in MultiRoutines /\ args'[2] = g

\* the identifiers preProcess is given in the scenarios
AskedGroups == { call.colorGroup : call \in GroupCalls }

\* the index setupColorGroup reads presetSizes and colorPresets at: one
\* entry for every group but eCustom and eAll
PresetIndexInRange(colorGroup) ==
    colorGroup \in {EColorGroup.eCustom, EColorGroup.eAll}
      \/ colorGroup - 1 \in 0..(EColorGroup.eColorGroup_MAX - 3)

\* C30: a multi-color routine called with a group identifier at or above
\* the number of groups stores the last group, called with a negative
\* identifier stores the first group, and called with a valid identifier
\* stores that identifier; the stored group is always a valid identifier,
\* and the index into the preset tables is inside them.
C30_GroupIsClampedToTheNearest ==
    [][ /\ \A g \in AskedGroups : MultiCallWith(g) =>
             /\ g >= EColorGroup.eColorGroup_MAX
                  => routines'.m_current_group = EColorGroup.eColorGroup_MAX - 1
             /\ g < 0 => routines'.m_current_group = 0
             /\ g \in 0..(EColorGroup.eColorGroup_MAX - 1)
                  => routines'.m_current_group = g
        /\ routines'.m_current_group \in 0..(EColorGroup.eColorGroup_MAX - 1)
        /\ PresetIndexInRange(routines'.m_current_group) ]_vars

(***************************************************************************)
(* C31: setCustomColorCount() while the custom group is the current group  *)
(***************************************************************************)
\* setCustomColorCount has just stored a count while m_current_group was
\* eCustom: the flag is up for the next call of a routine
CountChangedWhileCustom ==
    /\ op = "setCustomColorCount"
    /\ U8(args[1]) /= 0
    /\ routines.m_current_group = EColorGroup.eCustom

\* C31: the call of a routine that follows a change of the custom count
\* made while eCustom was the current group starts from the first phase,
\* copies the custom colors again so that m_temp_size is the new count,
\* and lowers m_preprocess_flag; the call after it, of the same routine and
\* group, keeps the phase and the size.
C31_CountChangeForcesOneNewSetup ==
    [][ /\ (CountChangedWhileCustom /\ op' = "tick")
             => /\ routines.m_preprocess_flag
                /\ entered'.m_temp_counter =
                      IF called'.fn = "singleSawtoothFadeOut"
                      THEN entered'.m_fade_speed ELSE 0
                /\ entered'.m_temp_index = 0
                /\ entered'.m_temp_bool
                /\ entered'.m_temp_color = Black
                /\ entered'.m_temp_size = routines.m_custom_count
                /\ routines'.m_temp_size = routines.m_custom_count
                /\ ~entered'.m_preprocess_flag
                /\ ~routines'.m_preprocess_flag
        /\ (op = "tick" /\ op' = "tick" /\ SameCall(called, called')
              /\ routines.m_current_group = EColorGroup.eCustom)
             => /\ Phase(entered') = Phase(routines)
                /\ routines'.m_temp_size = routines.m_temp_size
                /\ ~routines'.m_preprocess_flag ]_vars

\* singleBlink is called for the second time after the count was set to 3:
\* the palette has three colors and the counter of the first call is kept
C31_Witness ==
    /\ op = "tick"
    /\ called.fn = "singleBlink"
    /\ routines.m_custom_count = 3
    /\ routines.m_temp_size = 3
    /\ entered.m_temp_counter = 1
    /\ ~routines.m_preprocess_flag

(***************************************************************************)
(* C32: the counter of the linear and the sawtooth fades                   *)
(***************************************************************************)
\* a pass that called one of the three fades
FadeTick == op' = "tick" /\ called'.fn \in FadeRoutines

\* C32: after every call of singleLinearFade, singleSawtoothFadeIn and
\* singleSawtoothFadeOut the counter is between 0 and the fade speed, also
\* when the call gives a smaller fade speed than the call before it, and
\* no channel of a LED is above the channel the call asks for.
C32_FadeCounterStaysWithinTheFadeSpeed ==
    [][ FadeTick =>
          /\ routines'.m_temp_counter \in 0..routines'.m_fade_speed
          /\ \A i \in 1..LED_COUNT :
               /\ unscaled'[i].red <= BaseColor.red
               /\ unscaled'[i].green <= BaseColor.green
               /\ unscaled'[i].blue <= BaseColor.blue ]_vars

(***************************************************************************)
(* The multi fade on its own: loop() calls multiFade(group) pass after     *)
(* pass, and the fade speed is set between the passes.  The passes are not *)
(* counted: the engine returns to the states it was in.                    *)
(***************************************************************************)
\* the fade speeds set between the passes: the default, one that lands on a
\* target exactly (255), one that does not
FadeSpeeds == {DEFAULT_FADE_SPEED, 100, 255}

MultiFadeScenarios ==
    { [name |-> "multi fade", budget |-> 0, setters |-> FALSE, entropy |-> {99},
       levels |-> {}, tunables |-> speeds, group |-> group] :
        group \in {EColorGroup.eCustom, EColorGroup.eRGB, EColorGroup.eCMY},
        speeds \in {{DEFAULT_FADE_SPEED}, FadeSpeeds} }

InitMultiFade == \E scenario \in MultiFadeScenarios : SetupEngine(scenario)

\* a pass of loop(): multiFade(group), applyBrightness(), updateLEDs()
MultiFadePass ==
    /\ \E call \in {Call("multiFade", env.group, 0)} :
       \E rnd \in Draws(call, env.entropy, LED_COUNT) :
       \E p \in {enterRoutine(routines, call, rnd.palette)} :
       \E dimmed \in {applyBrightness(drawRoutine(p, call, rnd.led))} :
         /\ routines' = dimmed
         /\ driver' = dimmed.buffer
         /\ entered' = p
         /\ called' = NoteCall(routines, call)
         /\ unscaled' = drawRoutine([p EXCEPT !.buffer = unscaled], call, rnd.led).buffer
         /\ undefined' = (undefined \/ dimmed.undefined)
         /\ args' = << call.param, call.colorGroup >>
    /\ op' = "tick"
    /\ UNCHANGED << heard, updated, env, sketch, routines_2, serial, now, received, applied,
                    passes >>

\* fadeSpeed(value) called between two passes
SetFadeSpeed ==
    /\ \E value \in env.tunables :
         /\ routines' = fadeSpeed(routines, value)
         /\ args' = << value >>
    /\ op' = "setTunable"
    /\ UNCHANGED << heard, updated, env, sketch, routines_2, driver, serial, now, received,
                    applied, undefined, called, entered, unscaled, passes >>

NextMultiFade == MultiFadePass \/ SetFadeSpeed

\* loop() runs for ever: a pass is always taken again
SpecMultiFade == InitMultiFade /\ [][NextMultiFade]_vars /\ WF_vars(MultiFadePass)

\* the channels of a color
Channels(c) == << c.red, c.green, c.blue >>

\* a pass that called multiFade after a pass that called it
NextFadePass == op' = "tick" /\ called.fn = "multiFade" /\ called'.fn = "multiFade"

Displays(k) ==
    /\ op = "tick"
    /\ called.fn = "multiFade"
    /\ k <= routines.m_temp_size
    /\ \A i \in 1..LED_COUNT : unscaled[i] = routines.m_temp_array[k]

\* the fade is under way: the color of the pass is not yet the target
Fading == called.fn = "multiFade" /\ routines.m_temp_color /= routines.m_goal_color

\* the LEDs have the color the fade was on its way to
AtTarget ==
    /\ op = "tick"
    /\ called.fn = "multiFade"
    /\ \A i \in 1..LED_COUNT : unscaled[i] = routines.m_goal_color

\* the places of the palettes of the scenarios: the custom colors in use
\* after construction, the colors of eRGB and of eCMY
FadePaletteSlots ==
    1..Max(DEFAULT_CUSTOM_COUNT,
           Max(presetSizes(EColorGroup.eRGB), presetSizes(EColorGroup.eCMY)))

\* C34: with multiFade called pass after pass on a palette of two colors or
\* more, a fade that is under way reaches its target; the pass after that
\* (the second pass after it, when the last step was exactly the fade
\* speed) goes on from the target to the color that follows it in the
\* palette, and the target changes on no other pass; every color of the
\* palette is on the LEDs again and again.
C34_MultiFadeReachesEveryColor ==
    /\ Fading ~> AtTarget
    /\ \A k \in FadePaletteSlots : []<>(k <= routines.m_temp_size => Displays(k))
    /\ [][ NextFadePass =>
             /\ routines'.m_temp_size >= 2
             /\ routines'.m_goal_color /= routines.m_goal_color
                  => routines.m_temp_color = routines.m_goal_color
             /\ (routines.m_temp_color = routines.m_goal_color
                   /\ ~routines.m_start_next_fade)
                  => /\ routines'.m_start_next_fade
                     /\ routines'.m_temp_counter = routines.m_temp_counter
                     /\ routines'.m_temp_color = routines.m_temp_color
             /\ (routines.m_temp_color = routines.m_goal_color
                   /\ routines.m_start_next_fade)
                  => /\ routines'.m_temp_counter
                          = (routines.m_temp_counter + 1) % routines.m_temp_size
                     /\ routines.m_temp_color
                          = ArrayAt(routines.m_temp_array, routines'.m_temp_counter)
                     /\ routines'.m_goal_color
                          = ArrayAt(routines.m_temp_array,
                                    (routines'.m_temp_counter + 1) % routines'.m_temp_size)
           ]_vars

\* the fade has gone round the three colors of a palette: it is on the
\* first color again, on its way to the second
C34_Witness ==
    /\ Displays(1)
    /\ routines.m_temp_size = 3
    /\ routines.m_temp_counter = 2
    /\ routines.m_goal_color = routines.m_temp_array[1]

(***************************************************************************)
(* The wave and the moving bars on strips of several lengths: engines of   *)
(* one LED to a few LEDs, and of a strip long enough for the pattern to    *)
(* be repeated more than 255 times.                                        *)
(***************************************************************************)
\* the lengths of the short strips, and the long strip
ShortStrips == 1..5
LongStrip == 510

\* singleWave and multiBarsMoving with the bar sizes 1 to 3, on the custom
\* colors and on eRGB; on the long strip the bars only
MovingCalls(ledCount) ==
    { Call("multiBarsMoving", g, b) : g \in {EColorGroup.eCustom, EColorGroup.eRGB},
                                      b \in 1..3 }
      \cup IF ledCount \in ShortStrips
           THEN { Call("singleWave", 0, b) : b \in 1..3 }
           ELSE {}

MovingScenarios ==
    { [name |-> "moving", budget |-> 2, setters |-> FALSE, entropy |-> {99},
       levels |-> {}, tunables |-> {}, ledCount |-> n] : n \in ShortStrips \cup {LongStrip} }

\* a color no routine draws: the mark of a LED that a pass has not written
Unwritten == [red |-> -1, green |-> -1, blue |-> -1]

\* the state after setup() with a strip of scenario.ledCount LEDs
SetupMoving(scenario) ==
    /\ env = scenario
    /\ sketch = SketchGlobals
    /\ routines = SetBrightness(setMainColor(RoutinesRGB(scenario.ledCount), 0, 127, 0), 50)
    /\ routines_2 = setMainColor(RoutinesRGB(LED_COUNT \div 2), 0, 127, 0)
    /\ driver = Fill(scenario.ledCount, Black)
    /\ serial = << >>
    /\ now = 0
    /\ passes = 0
    /\ received = << >>
    /\ applied = << >>
    /\ undefined = FALSE
    /\ called = NoCall
    /\ entered = routines
    /\ unscaled = Fill(scenario.ledCount, Unwritten)
    /\ heard = [d \in 1..2 |-> 0]
    /\ updated = [d \in 1..2 |-> FALSE]
    /\ op = "setup"
    /\ args = << >>

InitMoving == \E scenario \in MovingScenarios : SetupMoving(scenario)

\* a pass of loop(): singleWave or multiBarsMoving, applyBrightness(),
\* updateLEDs(); `unscaled` is what the routine writes on a strip of
\* unwritten LEDs
MovingPass ==
    /\ passes < env.budget
    /\ \E call \in MovingCalls(env.ledCount) :
       \E rnd \in Draws(call, env.entropy, env.ledCount) :
       \E p \in {enterRoutine(routines, call, rnd.palette)} :
       \E dimmed \in {applyBrightness(drawRoutine(p, call, rnd.led))} :
         /\ routines' = dimmed
         /\ driver' = dimmed.buffer
         /\ entered' = p
         /\ called' = NoteCall(routines, call)
         /\ unscaled' = drawRoutine([p EXCEPT !.buffer = Fill(env.ledCount, Unwritten)],
                                    call, rnd.led).buffer
         /\ undefined' = (undefined \/ dimmed.undefined)
         /\ args' = << call.param, call.colorGroup >>
    /\ passes' = passes + 1
    /\ op' = "tick"
    /\ UNCHANGED << heard, updated, env, sketch, routines_2, serial, now, received, applied >>

NextMoving == MovingPass

SpecMovingBuffer == InitMoving /\ [][NextMoving]_vars

\* C35: on every pass of singleWave and multiBarsMoving every LED of the
\* strip is written: m_loop_count is floor(m_LED_count / m_loop_index) + 1
\* and m_loop_count * m_loop_index is at least m_LED_count, also when the
\* quotient plus one is above 255.
C35_EveryLedIsWritten ==
    [][ op' = "tick" =>
          /\ \A i \in 1..env.ledCount : unscaled'[i] /= Unwritten
          /\ entered'.m_loop_index > 0
               => /\ entered'.m_loop_count
                       = (entered'.m_LED_count \div entered'.m_loop_index) + 1
                  /\ entered'.m_loop_count * entered'.m_loop_index
                       >= entered'.m_LED_count ]_vars

\* C36: whenever movingBufferSetup has run for singleWave or
\* multiBarsMoving, the length of the pattern, m_loop_index, is above 0 and
\* at most m_LED_count, on a strip of one LED too: no write to
\* m_temp_buffer is outside it and nothing is divided by zero.
C36_PatternFitsTheStrip ==
    [][ op' = "tick" =>
          /\ entered'.m_loop_index > 0
          /\ entered'.m_loop_index <= entered'.m_LED_count
          /\ Len(entered'.m_temp_buffer) = entered'.m_LED_count
          /\ ~undefined' ]_vars

(***************************************************************************)
(* C37: the integers stored in packet_int_array                            *)
(***************************************************************************)
\* the sketch is CorlumaSample.ino (either build), not the multi sample
IsChecksumSample(k) == "IS_MULTI" \in DOMAIN k

\* The integers delimitedStringToIntArray stores for the packet of a pass:
\* those of the first message of a packet that passed the check
\* (CorlumaSample.ino), those of the packet (multi sample).
StoredInts(k, packet) ==
    IF IsChecksumSample(k)
    THEN LET check    == checkIfPacketIsValid(packet)
             messages == strtok(check.packet, message_delimiter)
         IN  IF ~check.undefined /\ check.valid /\ messages /= << >>
             THEN delimitedStringToIntArray(messages[1]) ELSE << >>
    ELSE multi_delimitedStringToIntArray(trim(packet)).ints

\* the number of elements of packet_int_array
IntArrayCapacity(k) == IF IsChecksumSample(k) THEN max_number_of_ints ELSE multi_max_ints

\* C37: no more integers are stored for a message than packet_int_array
\* holds (15 in CorlumaSample.ino, 10 in the multi sample): a message of
\* more values is dropped or cut, and nothing is written past the array.
C37_StoredIntsFitTheArray ==
    [][ (op' = "loop" /\ received' /= << >>)
          => Len(StoredInts(sketch', received')) <= IntArrayCapacity(sketch') ]_vars

(***************************************************************************)
(* C38: the divisors of the remainders loop() takes                        *)
(***************************************************************************)

\* the divisors of every `loop_counter % x` a pass of loop() evaluates, with
\* the globals k and the counter the pass sees: CorlumaSample.ino takes the
\* remainder by (MAX_SPEED_VALUE + 5) - update_speed when the speed is not 0
\* and, with IS_MULTI, by update_speed_2 and (when that remainder is not 0)
\* by update_speed; the multi sample takes the remainder by both speeds
LoopDivisors(k, loop_counter) ==
    IF IsChecksumSample(k)
    THEN (IF k.update_speed /= 0
          THEN {(MAX_SPEED_VALUE + 5) - k.update_speed} ELSE {})
         \cup (IF k.IS_MULTI /\ k.update_speed_2 /= 0
               THEN {(MAX_SPEED_VALUE + 5) - k.update_speed_2} ELSE {})
         \cup (IF k.IS_MULTI THEN {k.update_speed_2} ELSE {})
         \cup (IF k.IS_MULTI /\ k.update_speed_2 /= 0
                  /\ loop_counter % k.update_speed_2 /= 0
               THEN {k.update_speed} ELSE {})
    ELSE {k.update_speed, k.update_speed_2}

\* C38: in every pass of loop(), every remainder `loop_counter % x` is taken
\* by an x that is not 0, whatever speeds the messages have set (the paused
\* speed 0 of the multi build included).
C38_LoopNeverDividesByZero ==
    [][ op' = "loop"
          => 0 \notin LoopDivisors(sketch', sketch'.loop_counter - 1) ]_vars

(***************************************************************************)
(* C39: the routine and the palette the sketches store                     *)
(***************************************************************************)

\* the routine and the palette (color group) stored for each device of the
\* sketch with the globals k
StoredModes(k) ==
    IF IsChecksumSample(k)
    THEN { [routine |-> k.current_routine, group |-> k.current_palette] }
           \cup (IF k.IS_MULTI
                 THEN { [routine |-> k.current_routine_2, group |-> k.current_palette_2] }
                 ELSE {})
    ELSE { [routine |-> k.current_routine, group |-> k.current_group],
           [routine |-> k.current_routine_2, group |-> k.current_group_2] }

\* the identifiers of the enumerations of the sketch with the globals k
RoutineIds(k) ==
    IF IsChecksumSample(k) THEN 0..(ERoutine.eRoutine_MAX - 1)
    ELSE 0..(ELightingRoutine.eLightingRoutine_MAX - 1)
GroupIds(k) ==
    IF IsChecksumSample(k) THEN 0..(EPalette.ePalette_MAX - 1)
    ELSE 0..(EColorGroup.eColorGroup_MAX - 1)

\* C39: whatever messages have arrived, the routine stored for each device
\* is an identifier of a routine and the palette stored for it is an
\* identifier of a palette.
C39_StoredModeIsValid ==
    \A mode \in StoredModes(sketch) :
        mode.routine \in RoutineIds(sketch) /\ mode.group \in GroupIds(sketch)

(***************************************************************************)
(* C40: a change of a custom color while the custom palette is shown       *)
(***************************************************************************)

\* the one message of the pass was a change of a custom color of device 1
IsColorChange(messages) ==
    /\ Len(messages) = 1
    /\ Len(messages[1]) = 6
    /\ messages[1][1] = EPacketHeader.eCustomArrayColorChange
    /\ messages[1][2] \in {0, DEFAULT_HW_INDEX}

\* the device shows a multi color routine with the custom palette, and its
\* engine has set up that palette
ShowsCustomPalette(k, r) ==
    /\ k.current_routine > ERoutine.eSingleSawtoothFade
    /\ k.current_palette = EPalette.eCustom
    /\ r.m_is_on
    /\ r.m_current_group = EColorGroup.eCustom
    /\ r.m_current_routine = ELightingRoutine.eMultiFade

\* C40: when a pass of loop() applies a change of the custom color i, i below
\* the number of custom colors in use, to a device that shows a multi color
\* routine with the custom palette, and the pass computes a frame, the palette
\* the routine reads (m_temp_array) holds the new color in slot i.
C40_ColorChangeReachesTheShownPalette ==
    [][ (/\ op' = "loop"
         /\ IsColorChange(applied')
         /\ ShowsCustomPalette(sketch, routines)
         /\ applied'[1][3] < routines.m_custom_count
         /\ updated'[1])
          => /\ routines'.m_custom_colors[applied'[1][3] + 1]
                  = [red |-> applied'[1][4], green |-> applied'[1][5],
                     blue |-> applied'[1][6]]
             /\ routines'.m_temp_array[applied'[1][3] + 1]
                  = routines'.m_custom_colors[applied'[1][3] + 1] ]_vars
=============================================================================
